---------------------------- MODULE Spec2Model ----------------------------
(***************************************************************************)
(* Model of the iris-parsers library: the DNS wire-format parser/builder   *)
(* (dns.rs) and the HTTP/1.x framing policy applied on top of the header   *)
(* lexer (http.rs).                                                        *)
(*                                                                         *)
(* Conventions                                                             *)
(*  - a byte buffer is a sequence of 0..255; offsets are 0-based as in the *)
(*    source, At(d, i) is d[i];                                            *)
(*  - a Rust String / &str is the sequence of its UTF-8 bytes;             *)
(*  - Option/Result values are records with a field st: "ok", "none" (the  *)
(*    None / Err result) or "panic" (an out-of-range index or slice, which *)
(*    safe Rust turns into a panic).                                       *)
(***************************************************************************)
EXTENDS Integers, Sequences, FiniteSets, TLC

VARIABLES api, input, phase, rc, out, heap, nst, mst

vars == <<api, input, phase, rc, out, heap, nst, mst>>

(***************************************************************************)
(* Bytes and text                                                          *)
(***************************************************************************)
Byte == 0..255

At(d, i) == d[i + 1]

Slice(d, lo, hi) == SubSeq(d, lo + 1, hi)

InRange(d, i) == i >= 0 /\ i < Len(d)

U16(hi, lo) == hi * 256 + lo

Min(a, b) == IF a < b THEN a ELSE b

\* `let x = v; Op(x)`: v is evaluated once and Op is applied to its value.
Bind(v, Op(_)) == CHOOSE r \in {Op(x) : x \in {v}} : TRUE

RECURSIVE Concat(_)
Concat(ss) ==
    IF ss = <<>> THEN <<>>
    ELSE IF Len(ss) = 1 THEN ss[1]
    ELSE Concat(SubSeq(ss, 1, Len(ss) \div 2))
         \o Concat(SubSeq(ss, Len(ss) \div 2 + 1, Len(ss)))

RECURSIVE Join(_, _)
Join(ss, sep) ==
    IF ss = <<>> THEN <<>>
    ELSE IF Len(ss) = 1 THEN ss[1]
    ELSE ss[1] \o sep \o Join(Tail(ss), sep)

IsCont(b) == b >= 128 /\ b <= 191

\* Width of the well-formed UTF-8 sequence starting at s[i] (1-based), 0 if none.
Utf8Width(s, i) ==
    LET b  == s[i]
        n  == Len(s)
        c1 == IF i + 1 <= n THEN s[i + 1] ELSE -1
        c2 == IF i + 2 <= n THEN s[i + 2] ELSE -1
        c3 == IF i + 3 <= n THEN s[i + 3] ELSE -1
    IN  IF b <= 127 THEN 1
        ELSE IF b >= 194 /\ b <= 223 THEN (IF IsCont(c1) THEN 2 ELSE 0)
        ELSE IF b = 224 THEN (IF c1 >= 160 /\ c1 <= 191 /\ IsCont(c2) THEN 3 ELSE 0)
        ELSE IF b = 237 THEN (IF c1 >= 128 /\ c1 <= 159 /\ IsCont(c2) THEN 3 ELSE 0)
        ELSE IF b >= 225 /\ b <= 239 THEN (IF IsCont(c1) /\ IsCont(c2) THEN 3 ELSE 0)
        ELSE IF b = 240 THEN
            (IF c1 >= 144 /\ c1 <= 191 /\ IsCont(c2) /\ IsCont(c3) THEN 4 ELSE 0)
        ELSE IF b >= 241 /\ b <= 243 THEN
            (IF IsCont(c1) /\ IsCont(c2) /\ IsCont(c3) THEN 4 ELSE 0)
        ELSE IF b = 244 THEN
            (IF c1 >= 128 /\ c1 <= 143 /\ IsCont(c2) /\ IsCont(c3) THEN 4 ELSE 0)
        ELSE 0

\* std::str::from_utf8(s).is_ok(): s starts with the first byte of a sequence, and
\* every byte that is not a continuation byte starts a well-formed sequence that ends
\* at the end of s or where the next sequence starts.
Utf8Valid(s) ==
    \A i \in 1..Len(s) :
        IF IsCont(s[i]) THEN i > 1
        ELSE LET w == Utf8Width(s, i) IN
             w > 0 /\ (i + w > Len(s) \/ ~IsCont(s[i + w]))

\* format!("{}", n) for an unsigned integer
RECURSIVE Dec(_)
Dec(n) == IF n < 10 THEN <<48 + n>> ELSE Dec(n \div 10) \o <<48 + (n % 10)>>

HexDigit(n) == IF n < 10 THEN 48 + n ELSE 87 + n

\* format!("{:x}", n)
RECURSIVE LowerHex(_)
LowerHex(n) == IF n < 16 THEN <<HexDigit(n)>> ELSE LowerHex(n \div 16) \o <<HexDigit(n % 16)>>

\* format!("{:02x}", b) of every byte, concatenated
hex(d) == Concat([i \in 1..Len(d) |-> <<HexDigit(d[i] \div 16), HexDigit(d[i] % 16)>>])

None == [st |-> "none"]

Panic == [st |-> "panic"]

(***************************************************************************)
(* dns.rs: parse_name                                                      *)
(***************************************************************************)
MaxJumps == 10

MaxLabel == 63

\* dns.rs:108  if pos >= data.len() { return None; }
NamePosPastEnd(data, pos) == pos >= Len(data)

\* dns.rs:114  len & 0xC0 == 0xC0
IsPointer(len) == (len \div 64) % 4 = 3

\* PointerPastEnd off by one: the second byte of the pointer is not required
PointerPastEnd_off_by_one(data, pos) == pos + 1 > Len(data)

\* dns.rs:115  if pos + 1 >= data.len() { return None; }
PointerPastEnd(data, pos) == pos + 1 >= Len(data)

\* TooManyJumps allowing one jump more
TooManyJumps_late(jumps) == jumps > MaxJumps + 1

\* TooManyJumps failing one jump early
TooManyJumps_early(jumps) == jumps >= MaxJumps

\* dns.rs:120  if jumps > 10 { return None; }
TooManyJumps(jumps) == jumps > MaxJumps

\* dns.rs:123  if len > 63 { return None; }
LabelTooLong(len) == len > MaxLabel

\* dns.rs:125  if pos + len > data.len() { return None; }   (pos already advanced)
LabelPastEnd(data, pos, len) == pos + len > Len(data)

NameInit(pos) ==
    [pos |-> pos, labels |-> <<>>, end_pos |-> 0, jumped |-> FALSE, jumps |-> 0,
     st |-> "run"]

\* EndPos moving the end offset at every zero byte and pointer, jump or no jump
EndPos_always(s, p) == p

\* dns.rs:111, 116  if !jumped { end_pos = p; }
EndPos(s, p) == IF ~s.jumped THEN p ELSE s.end_pos

\* One iteration of the loop of parse_name.
name_step(data, s) ==
    IF NamePosPastEnd(data, s.pos) THEN [s EXCEPT !.st = "none"]
    ELSE IF ~InRange(data, s.pos) THEN [s EXCEPT !.st = "panic"]
    ELSE LET len == At(data, s.pos) IN
        IF len = 0 THEN
            [s EXCEPT !.end_pos = EndPos(s, s.pos + 1), !.st = "ok"]
        ELSE IF IsPointer(len) THEN
            IF PointerPastEnd(data, s.pos) THEN [s EXCEPT !.st = "none"]
            ELSE IF ~InRange(data, s.pos + 1) THEN [s EXCEPT !.st = "panic"]
            ELSE LET j == s.jumps + 1 IN
                [s EXCEPT !.end_pos = EndPos(s, s.pos + 2),
                          !.pos = (len % 64) * 256 + At(data, s.pos + 1),
                          !.jumped = TRUE,
                          !.jumps = j,
                          !.st = IF TooManyJumps(j) THEN "none" ELSE "run"]
        ELSE IF LabelTooLong(len) THEN [s EXCEPT !.st = "none"]
        ELSE LET p == s.pos + 1 IN
            IF LabelPastEnd(data, p, len) THEN [s EXCEPT !.st = "none"]
            ELSE IF p + len > Len(data) THEN [s EXCEPT !.st = "panic"]
            ELSE LET label == Slice(data, p, p + len) IN
                IF ~Utf8Valid(label) THEN [s EXCEPT !.st = "none"]
                ELSE [s EXCEPT !.labels = Append(@, label), !.pos = p + len]

RECURSIVE name_run(_, _)
name_run(data, s) ==
    IF s.st # "run" THEN s
    ELSE Bind(name_step(data, s), LAMBDA t : name_run(data, t))

\* labels.is_empty() ? "." : labels.join(".")
name_text(labels) == IF labels = <<>> THEN <<46>> ELSE Join(labels, <<46>>)

parse_name(data, pos) ==
    Bind(name_run(data, NameInit(pos)), LAMBDA s :
        IF s.st = "ok" THEN [st |-> "ok", name |-> name_text(s.labels), end |-> s.end_pos]
        ELSE [st |-> s.st])

(***************************************************************************)
(* dns.rs: format_rdata                                                    *)
(***************************************************************************)
\* The first n bytes of rd can be indexed.
CanRead(rd, n) == n <= Len(rd)

\* TXT: the loop of dns.rs:165-171
RECURSIVE txt_parts(_, _, _)
txt_parts(rd, p, parts) ==
    IF ~(p < Len(rd)) THEN parts
    ELSE LET len == At(rd, p)
             q   == p + 1
         IN  IF q + len > Len(rd) THEN parts
             ELSE LET s == Slice(rd, q, q + len) IN
                 txt_parts(rd, q + len, IF Utf8Valid(s) THEN Append(parts, s) ELSE parts)

\* parse_name(msg, pos).map(|(n, _)| n).unwrap_or_default()
name_or_default(msg, pos) ==
    Bind(parse_name(msg, pos), LAMBDA n :
        IF n.st = "ok" THEN [st |-> "ok", text |-> n.name]
        ELSE IF n.st = "panic" THEN Panic
        ELSE [st |-> "ok", text |-> <<>>])

\* parse_name(msg, start).map(|(n, _)| n).unwrap_or_else(|| hex(rd))
name_or_hex(rd, msg, pos) ==
    Bind(parse_name(msg, pos), LAMBDA n :
        IF n.st = "ok" THEN [st |-> "ok", text |-> n.name]
        ELSE IF n.st = "panic" THEN Panic
        ELSE [st |-> "ok", text |-> hex(rd)])

Text(t) == [st |-> "ok", text |-> t]

format_rdata(rtype, rd, msg, start) ==
    IF rtype = 1 /\ Len(rd) = 4 THEN
        IF ~CanRead(rd, 4) THEN Panic
        ELSE Text(Dec(rd[1]) \o <<46>> \o Dec(rd[2]) \o <<46>> \o Dec(rd[3]) \o <<46>>
                  \o Dec(rd[4]))
    ELSE IF rtype = 28 /\ Len(rd) = 16 THEN
        IF ~CanRead(rd, 16) THEN Panic
        ELSE Text(Join([i \in 1..8 |-> LowerHex(U16(rd[2 * i - 1], rd[2 * i]))], <<58>>))
    ELSE IF rtype \in {2, 5, 12} THEN name_or_hex(rd, msg, start)
    ELSE IF rtype = 15 /\ Len(rd) >= 3 THEN
        IF ~CanRead(rd, 2) THEN Panic
        ELSE LET pri == U16(rd[1], rd[2]) IN
            Bind(name_or_default(msg, start + 2), LAMBDA n :
                IF n.st = "panic" THEN Panic ELSE Text(Dec(pri) \o <<32>> \o n.text))
    ELSE IF rtype = 16 THEN Text(Concat(txt_parts(rd, 0, <<>>)))
    ELSE IF rtype = 33 /\ Len(rd) >= 7 THEN
        IF ~CanRead(rd, 6) THEN Panic
        ELSE LET pri  == U16(rd[1], rd[2])
                 wt   == U16(rd[3], rd[4])
                 port == U16(rd[5], rd[6])
             IN  Bind(name_or_default(msg, start + 6), LAMBDA tgt :
                     IF tgt.st = "panic" THEN Panic
                     ELSE Text(Dec(pri) \o <<32>> \o Dec(wt) \o <<32>> \o Dec(port)
                               \o <<32>> \o tgt.text))
    ELSE IF rtype \in {64, 65} /\ Len(rd) >= 3 THEN
        IF ~CanRead(rd, 2) THEN Panic
        ELSE LET pri == U16(rd[1], rd[2]) IN
            Bind(name_or_default(msg, start + 2), LAMBDA tgt :
                IF tgt.st = "panic" THEN Panic
                ELSE IF pri = 0 THEN Text(<<65, 108, 105, 97, 115, 77, 111, 100, 101, 32>>
                                          \o tgt.text)
                ELSE Text(Dec(pri) \o <<32>> \o tgt.text))
    ELSE Text(hex(rd))

(***************************************************************************)
(* dns.rs: parse_rr                                                        *)
(***************************************************************************)
\* dns.rs:135  if pos + 10 > data.len() { return None; }
RRHeaderPastEnd(data, pos) == pos + 10 > Len(data)

\* dns.rs:141  if pos + rdlen > data.len() { return None; }
RDataPastEnd(data, pos, rdlen) == pos + rdlen > Len(data)

\* The TTL is kept as its two 16-bit halves <<high, low>>: the 32-bit value is
\* high * 65536 + low, which the checker's integers cannot hold.
U32(b0, b1, b2, b3) == <<U16(b0, b1), U16(b2, b3)>>

\* dns.rs:136-145  the record whose owner name n ends at pos
parse_rr_fields(data, n, pos) ==
    IF RRHeaderPastEnd(data, pos) THEN None
    ELSE IF pos + 10 > Len(data) THEN Panic
    ELSE LET rtype  == U16(At(data, pos), At(data, pos + 1))
             rclass == U16(At(data, pos + 2), At(data, pos + 3))
             ttl    == U32(At(data, pos + 4), At(data, pos + 5), At(data, pos + 6),
                           At(data, pos + 7))
             rdlen  == U16(At(data, pos + 8), At(data, pos + 9))
             p      == pos + 10
         IN  IF RDataPastEnd(data, p, rdlen) THEN None
             ELSE IF p + rdlen > Len(data) THEN Panic
             ELSE LET rdata == Slice(data, p, p + rdlen) IN
                 Bind(format_rdata(rtype, rdata, data, p), LAMBDA display :
                     IF display.st = "panic" THEN Panic
                     ELSE [st |-> "ok",
                           rr |-> [name |-> n.name, rtype |-> rtype, rclass |-> rclass,
                                   ttl |-> ttl, rdata |-> rdata,
                                   display |-> display.text],
                           end |-> p + rdlen])

parse_rr(data, offset) ==
    Bind(parse_name(data, offset), LAMBDA n :
        IF n.st # "ok" THEN [st |-> n.st] ELSE parse_rr_fields(data, n, n.end))

(***************************************************************************)
(* dns.rs: parse_dns, parse_rr_section                                     *)
(***************************************************************************)
HeaderLen == 12

MaxCount == 256

\* DnsTooShort letting an 11-byte buffer through
DnsTooShort_off_by_one(data) == Len(data) < HeaderLen - 1

\* dns.rs:56  if data.len() < 12 { return None; }
DnsTooShort(data) == Len(data) < HeaderLen

\* dns.rs:59-61  the four 16-bit section counts
dns_counts(data) == [i \in 1..4 |-> U16(At(data, 2 + 2 * i), At(data, 3 + 2 * i))]

\* CountTooBig rejecting a count of 256 too
CountTooBig_inclusive(counts) == \E i \in 1..4 : counts[i] >= MaxCount

\* dns.rs:62  if counts.iter().any(|&c| c > 256) { return None; }
CountTooBig(counts) == \E i \in 1..4 : counts[i] > MaxCount

\* dns.rs:69  if off + 4 > data.len() { return None; }
QuestionPastEnd(data, off) == off + 4 > Len(data)

\* dns_flags taking the response code from the low seven bits
dns_flags_wide_rcode(flags) ==
    [is_response         |-> (flags \div 32768) % 2 = 1,
     opcode              |-> (flags \div 2048) % 16,
     is_authoritative    |-> (flags \div 1024) % 2 = 1,
     is_truncated        |-> (flags \div 512) % 2 = 1,
     recursion_desired   |-> (flags \div 256) % 2 = 1,
     recursion_available |-> (flags \div 128) % 2 = 1,
     response_code       |-> flags % 128]

\* dns.rs:85-87  the fields of the flags word
dns_flags(flags) ==
    [is_response         |-> (flags \div 32768) % 2 = 1,
     opcode              |-> (flags \div 2048) % 16,
     is_authoritative    |-> (flags \div 1024) % 2 = 1,
     is_truncated        |-> (flags \div 512) % 2 = 1,
     recursion_desired   |-> (flags \div 256) % 2 = 1,
     recursion_available |-> (flags \div 128) % 2 = 1,
     response_code       |-> flags % 16]

\* The loops of parse_dns: phase names the section being read, i the iterations of
\* its loop completed so far, off the section cursor.
DnsInit ==
    [phase |-> "questions", i |-> 0, off |-> HeaderLen, questions |-> <<>>,
     answers |-> <<>>, authority |-> <<>>, additional |-> <<>>, st |-> "run"]

\* question_step ending the section at a question that does not decode, as
\* parse_rr_section does for records
question_step_lenient(data, m) ==
    Bind(parse_name(data, m.off), LAMBDA n :
        IF n.st = "panic" THEN [m EXCEPT !.st = "panic"]
        ELSE IF n.st # "ok" \/ n.end + 4 > Len(data)
             THEN [m EXCEPT !.phase = "answers", !.i = 0]
        ELSE [m EXCEPT !.questions =
                           Append(@, [name   |-> n.name,
                                      qtype  |-> U16(At(data, n.end), At(data, n.end + 1)),
                                      qclass |-> U16(At(data, n.end + 2),
                                                     At(data, n.end + 3))]),
                       !.off = n.end + 4,
                       !.i = @ + 1])

\* dns.rs:66-74  one iteration of the question loop
question_step(data, m) ==
    Bind(parse_name(data, m.off), LAMBDA n :
        IF n.st # "ok" THEN [m EXCEPT !.st = n.st]
        ELSE LET off == n.end IN
            IF QuestionPastEnd(data, off) THEN [m EXCEPT !.st = "none"]
            ELSE IF off + 4 > Len(data) THEN [m EXCEPT !.st = "panic"]
            ELSE [m EXCEPT !.questions =
                               Append(@, [name   |-> n.name,
                                          qtype  |-> U16(At(data, off), At(data, off + 1)),
                                          qclass |-> U16(At(data, off + 2),
                                                         At(data, off + 3))]),
                           !.off = off + 4,
                           !.i = @ + 1])

\* dns.rs:77-81  one iteration of the answer loop: a failing record fails the parse
answer_step(data, m) ==
    Bind(parse_rr(data, m.off), LAMBDA r :
        IF r.st # "ok" THEN [m EXCEPT !.st = r.st]
        ELSE [m EXCEPT !.answers = Append(@, r.rr), !.off = r.end, !.i = @ + 1])

\* section_step ending the section after its first record
section_step_one_record(data, m, sec, next) ==
    Bind(parse_rr(data, m.off), LAMBDA r :
        IF r.st = "panic" THEN [m EXCEPT !.st = "panic"]
        ELSE IF r.st # "ok" THEN [m EXCEPT !.phase = next, !.i = 0]
        ELSE [m EXCEPT ![sec] = Append(@, r.rr), !.off = r.end, !.phase = next, !.i = 0])

\* section_step failing the parse at a failing record, as the answer loop does
section_step_strict(data, m, sec, next) ==
    Bind(parse_rr(data, m.off), LAMBDA r :
        IF r.st # "ok" THEN [m EXCEPT !.st = r.st]
        ELSE [m EXCEPT ![sec] = Append(@, r.rr), !.off = r.end, !.i = @ + 1])

\* dns.rs:93-98  one iteration of the loop of parse_rr_section: a failing record
\* ends the section (break) and leaves the cursor where it was
section_step(data, m, sec, next) ==
    Bind(parse_rr(data, m.off), LAMBDA r :
        IF r.st = "panic" THEN [m EXCEPT !.st = "panic"]
        ELSE IF r.st # "ok" THEN [m EXCEPT !.phase = next, !.i = 0]
        ELSE [m EXCEPT ![sec] = Append(@, r.rr), !.off = r.end, !.i = @ + 1])

\* dns.rs:56-64  the state in which parse_dns enters its loops, or has failed
dns_enter(data) ==
    IF DnsTooShort(data) THEN [DnsInit EXCEPT !.st = "none"]
    ELSE IF ~CanRead(data, HeaderLen) THEN [DnsInit EXCEPT !.st = "panic"]
    ELSE IF CountTooBig(dns_counts(data)) THEN [DnsInit EXCEPT !.st = "none"]
    ELSE DnsInit

\* One step of parse_dns after the header checks: the exit of the current loop when
\* its count is reached, one iteration of it otherwise.
dns_step(data, m) ==
    LET counts == dns_counts(data) IN
    IF m.phase = "questions" THEN
        IF m.i >= counts[1] THEN [m EXCEPT !.phase = "answers", !.i = 0]
        ELSE question_step(data, m)
    ELSE IF m.phase = "answers" THEN
        IF m.i >= counts[2] THEN [m EXCEPT !.phase = "authority", !.i = 0]
        ELSE answer_step(data, m)
    ELSE IF m.phase = "authority" THEN
        IF m.i >= counts[3] THEN [m EXCEPT !.phase = "additional", !.i = 0]
        ELSE section_step(data, m, "authority", "additional")
    ELSE IF m.phase = "additional" THEN
        IF m.i >= counts[4] THEN [m EXCEPT !.phase = "done", !.i = 0]
        ELSE section_step(data, m, "additional", "done")
    ELSE [m EXCEPT !.st = "ok"]

RECURSIVE dns_run(_, _)
dns_run(data, m) ==
    IF m.st # "run" THEN m
    ELSE Bind(dns_step(data, m), LAMBDA t : dns_run(data, t))

parse_dns(data) ==
    Bind(dns_run(data, dns_enter(data)), LAMBDA m :
        IF m.st # "ok" THEN [st |-> m.st]
        ELSE [st |-> "ok",
              id |-> U16(At(data, 0), At(data, 1)),
              flags |-> dns_flags(U16(At(data, 2), At(data, 3))),
              questions |-> m.questions, answers |-> m.answers,
              authority |-> m.authority, additional |-> m.additional])

(***************************************************************************)
(* dns.rs: the FFI layer                                                   *)
(***************************************************************************)
\* CString::new(s).unwrap_or_else(|_| CString::new("").unwrap()): a string with an
\* interior NUL becomes the empty string.
to_cstr(s) == IF \E i \in 1..Len(s) : s[i] = 0 THEN <<>> ELSE s

\* An array pointer is modelled by the sequence it points to; the empty sequence is
\* the null pointer that a count of 0 yields.
alloc_questions(qs) ==
    [i \in 1..Len(qs) |->
        [name |-> to_cstr(qs[i].name), record_type |-> qs[i].qtype, qclass |-> qs[i].qclass]]

alloc_records(rrs) ==
    [i \in 1..Len(rrs) |->
        [name |-> to_cstr(rrs[i].name), record_type |-> rrs[i].rtype,
         rrclass |-> rrs[i].rclass, ttl |-> rrs[i].ttl, rdata |-> rrs[i].rdata,
         rdata_len |-> Len(rrs[i].rdata), display_value |-> to_cstr(rrs[i].display)]]

Unwritten == [written |-> FALSE]

\* A heap block is named by the array it belongs to (of a section, or "headers"), the
\* index of the element that owns it (0 for the array itself) and what it holds.
Block(owner, i, what) == <<owner, i, what>>

\* dns.rs:225-239  the blocks alloc_questions allocates: none for an empty section,
\* else the array and one C string per question
alloc_questions_blocks(qs) ==
    IF Len(qs) = 0 THEN {}
    ELSE {Block("questions", 0, "array")}
         \cup {Block("questions", i, "name") : i \in 1..Len(qs)}

\* dns.rs:241-258  the blocks alloc_records allocates for the section sec: none for
\* an empty section, else the array, two C strings per record and, through
\* alloc_bytes, the rdata of every record whose rdata is not empty
alloc_records_blocks(sec, rrs) ==
    IF Len(rrs) = 0 THEN {}
    ELSE {Block(sec, 0, "array")}
         \cup {Block(sec, i, "name") : i \in 1..Len(rrs)}
         \cup {Block(sec, i, "display") : i \in 1..Len(rrs)}
         \cup {Block(sec, i, "rdata") : i \in {k \in 1..Len(rrs) : Len(rrs[k].rdata) > 0}}

\* Failed writing a header array before it gives up
Failed_partial(code) ==
    [aborted |-> FALSE, rc |-> code, out |-> Unwritten,
     allocs |-> {Block("headers", 0, "array")}]

\* A return with an error code: *out is not written and nothing has been allocated.
Failed(code) == [aborted |-> FALSE, rc |-> code, out |-> Unwritten, allocs |-> {}]

\* a = [data_null, out_null, buf]; the result is the return code and the contents of
\* *out.  A panic inside an extern "C" function aborts the process: the call does not
\* return (aborted), and rc is then meaningless.
iris_dns_parse(a) ==
    IF a.data_null \/ a.out_null \/ Len(a.buf) = 0 THEN
        Failed(-2)
    ELSE Bind(parse_dns(a.buf), LAMBDA r :
        IF r.st = "panic" THEN [aborted |-> TRUE, rc |-> 0, out |-> Unwritten, allocs |-> {}]
        ELSE IF r.st = "none" THEN Failed(-2)
        ELSE [aborted |-> FALSE, rc |-> 0,
              allocs |-> alloc_questions_blocks(r.questions)
                         \cup alloc_records_blocks("answers", r.answers)
                         \cup alloc_records_blocks("authority", r.authority)
                         \cup alloc_records_blocks("additional", r.additional),
              out |-> [written |-> TRUE,
                       id |-> r.id,
                       is_response |-> r.flags.is_response,
                       opcode |-> r.flags.opcode,
                       is_authoritative |-> r.flags.is_authoritative,
                       is_truncated |-> r.flags.is_truncated,
                       recursion_desired |-> r.flags.recursion_desired,
                       recursion_available |-> r.flags.recursion_available,
                       response_code |-> r.flags.response_code,
                       questions |-> alloc_questions(r.questions),
                       questions_count |-> Len(r.questions),
                       answers |-> alloc_records(r.answers),
                       answers_count |-> Len(r.answers),
                       authority |-> alloc_records(r.authority),
                       authority_count |-> Len(r.authority),
                       additional |-> alloc_records(r.additional),
                       additional_count |-> Len(r.additional)]])

\* The release functions are modelled by the blocks they release, in order.  ptr is
\* the array as the structure holds it, empty for the null pointer.
\* dns.rs:306-316
free_questions(ptr, count) ==
    IF ptr = <<>> \/ count = 0 THEN <<>>
    ELSE [i \in 1..count |-> Block("questions", i, "name")]
         \o <<Block("questions", 0, "array")>>

\* free_records leaving the rdata buffers alone
free_records_keep_rdata(sec, ptr, count) ==
    IF ptr = <<>> \/ count = 0 THEN <<>>
    ELSE Concat([i \in 1..count |-> <<Block(sec, i, "name"), Block(sec, i, "display")>>])
         \o <<Block(sec, 0, "array")>>

\* dns.rs:318-333  sec names the section whose array ptr is
free_records(sec, ptr, count) ==
    IF ptr = <<>> \/ count = 0 THEN <<>>
    ELSE Concat([i \in 1..count |->
                    <<Block(sec, i, "name"), Block(sec, i, "display")>>
                    \o (IF ptr[i].rdata # <<>> /\ ptr[i].rdata_len > 0
                        THEN <<Block(sec, i, "rdata")>> ELSE <<>>)])
         \o <<Block(sec, 0, "array")>>

\* dns.rs:337-346  on a non-null msg
iris_dns_free_message(m) ==
    free_questions(m.questions, m.questions_count)
    \o free_records("answers", m.answers, m.answers_count)
    \o free_records("authority", m.authority, m.authority_count)
    \o free_records("additional", m.additional, m.additional_count)

(***************************************************************************)
(* dns.rs: the query builder                                               *)
(***************************************************************************)
\* str::split('.'): the components of name between the dots, empty ones included
RECURSIVE split_dots(_)
split_dots(name) ==
    IF \A i \in 1..Len(name) : name[i] # 46 THEN <<name>>
    ELSE Bind(CHOOSE i \in 1..Len(name) : name[i] = 46 /\ \A j \in 1..(i - 1) : name[j] # 46,
              LAMBDA i : <<SubSeq(name, 1, i - 1)>>
                         \o Bind(SubSeq(name, i + 1, Len(name)), LAMBDA rest : split_dots(rest)))

\* serialize_label cutting a label to 62 bytes
serialize_label_short(label) ==
    LET len == Min(Len(label), MaxLabel - 1) IN <<len>> \o SubSeq(label, 1, len)

\* dns.rs:199-201  one label: its length cut to 63, then that many of its bytes
serialize_label(label) ==
    LET len == Min(Len(label), MaxLabel) IN <<len>> \o SubSeq(label, 1, len)

\* serialize_name leaving out the zero byte that ends the name
serialize_name_unterminated(name) ==
    LET labels == SelectSeq(split_dots(name), LAMBDA l : l # <<>>) IN
    Concat([i \in 1..Len(labels) |-> serialize_label(labels[i])])

\* dns.rs:196-205
serialize_name(name) ==
    LET labels == SelectSeq(split_dots(name), LAMBDA l : l # <<>>) IN
    Concat([i \in 1..Len(labels) |-> serialize_label(labels[i])]) \o <<0>>

\* u16::to_be_bytes
to_be_bytes(v) == <<v \div 256, v % 256>>

\* build_query_bytes writing the flags word little-endian
build_query_bytes_le(domain, rtype, id, rd) ==
    to_be_bytes(id) \o (IF rd THEN <<0, 1>> ELSE <<0, 0>>) \o to_be_bytes(1)
    \o <<0, 0, 0, 0, 0, 0>> \o serialize_name(domain) \o to_be_bytes(rtype)
    \o to_be_bytes(1)

\* dns.rs:207-217
build_query_bytes(domain, rtype, id, rd) ==
    to_be_bytes(id) \o to_be_bytes(IF rd THEN 256 ELSE 0) \o to_be_bytes(1)
    \o <<0, 0, 0, 0, 0, 0>> \o serialize_name(domain) \o to_be_bytes(rtype)
    \o to_be_bytes(1)

\* ffi.rs:42-51  the pointer is modelled by the bytes it points to; an empty buffer
\* gives the null pointer and length 0
alloc_bytes(data) == [data |-> data, len |-> Len(data)]

\* ffi.rs:55-59  the blocks iris_free_bytes releases: none for a null pointer or a
\* length of 0, else the buffer, which here is the one iris_dns_build_query returned
iris_free_bytes(ptr, len) ==
    IF ptr = <<>> \/ len = 0 THEN <<>> ELSE <<Block("query", 0, "bytes")>>

\* dns.rs:292-304  a = [domain_null, out_data_null, out_len_null, domain, record_type,
\* id, recursion_desired]; domain is the bytes of the C string before its NUL
iris_dns_build_query(a) ==
    IF a.domain_null \/ a.out_data_null \/ a.out_len_null THEN
        Failed(-2)
    ELSE IF ~Utf8Valid(a.domain) THEN Failed(-2)
    ELSE LET b == alloc_bytes(build_query_bytes(a.domain, a.record_type, a.id,
                                                a.recursion_desired))
         IN  [aborted |-> FALSE, rc |-> 0,
              allocs |-> IF b.len = 0 THEN {} ELSE {Block("query", 0, "bytes")},
              out |-> [written |-> TRUE, data |-> b.data, len |-> b.len]]

\* The bytes of build_query_bytes (dns.rs:207-217) handed to iris_dns_parse
\* (dns.rs:264-288) through two valid pointers.
build_parse(a) ==
    iris_dns_parse([data_null |-> FALSE, out_null |-> FALSE,
                    buf |-> build_query_bytes(a.domain, a.record_type, a.id,
                                              a.recursion_desired)])

\* serialize_name(name) handed to parse_name at offset 0
encode_decode(name) ==
    LET bytes == serialize_name(name) IN
    [aborted |-> FALSE, rc |-> 0, allocs |-> {},
     out |-> [written |-> TRUE, bytes |-> bytes, decoded |-> parse_name(bytes, 0)]]

(***************************************************************************)
(* http.rs: text helpers of the standard library, as the code uses them    *)
(***************************************************************************)
\* u8::to_ascii_lowercase
ascii_lower(b) == IF b >= 65 /\ b <= 90 THEN b + 32 ELSE b

\* eq_ignore_ascii_case on two byte strings
eq_ignore_ascii_case(a, b) ==
    Len(a) = Len(b) /\ \A i \in 1..Len(a) : ascii_lower(a[i]) = ascii_lower(b[i])

\* The UTF-8 encodings of the characters with the White_Space property, which
\* str::trim removes.
WhiteSpace ==
    {<<b>> : b \in {9, 10, 11, 12, 13, 32}}
    \cup {<<194, 133>>, <<194, 160>>, <<225, 154, 128>>, <<226, 128, 168>>,
          <<226, 128, 169>>, <<226, 128, 175>>, <<226, 129, 159>>, <<227, 128, 128>>}
    \cup {<<226, 128, b>> : b \in 128..138}

RECURSIVE trim_start(_)
trim_start(s) ==
    IF \E w \in WhiteSpace : Len(s) >= Len(w) /\ SubSeq(s, 1, Len(w)) = w
    THEN LET w == CHOOSE w \in WhiteSpace : Len(s) >= Len(w) /\ SubSeq(s, 1, Len(w)) = w
         IN  trim_start(SubSeq(s, Len(w) + 1, Len(s)))
    ELSE s

RECURSIVE trim_end(_)
trim_end(s) ==
    IF \E w \in WhiteSpace : Len(s) >= Len(w) /\ SubSeq(s, Len(s) - Len(w) + 1, Len(s)) = w
    THEN LET w == CHOOSE w \in WhiteSpace :
                      Len(s) >= Len(w) /\ SubSeq(s, Len(s) - Len(w) + 1, Len(s)) = w
         IN  trim_end(SubSeq(s, 1, Len(s) - Len(w)))
    ELSE s

\* str::trim
trim(s) == trim_end(trim_start(s))

(***************************************************************************)
(* A signed 64-bit integer is the record [neg, mag]: its sign and the      *)
(* decimal digits of its magnitude without leading zeros (zero is          *)
(* [neg |-> FALSE, mag |-> <<0>>]), so that every i64 has one              *)
(* representation and none is cut to the checker's 32-bit integers.        *)
(***************************************************************************)
RECURSIVE Digits(_)
Digits(n) == IF n < 10 THEN <<n>> ELSE Digits(n \div 10) \o <<n % 10>>

I64(n) == IF n < 0 THEN [neg |-> TRUE, mag |-> Digits(-n)] ELSE [neg |-> FALSE, mag |-> Digits(n)]

RECURSIVE strip_zeros(_)
strip_zeros(d) == IF Len(d) > 1 /\ d[1] = 0 THEN strip_zeros(Tail(d)) ELSE d

\* a < b for two magnitudes without leading zeros
RECURSIVE MagLess(_, _)
MagLess(a, b) ==
    IF Len(a) # Len(b) THEN Len(a) < Len(b)
    ELSE IF a = <<>> THEN FALSE
    ELSE IF a[1] # b[1] THEN a[1] < b[1]
    ELSE MagLess(Tail(a), Tail(b))

\* a > b for two i64 values
I64Greater(a, b) ==
    IF a.neg # b.neg THEN b.neg
    ELSE IF a.neg THEN MagLess(a.mag, b.mag)
    ELSE MagLess(b.mag, a.mag)

\* i64::MAX = 9223372036854775807; the magnitude of i64::MIN is one more
I64MaxMag == <<9, 2, 2, 3, 3, 7, 2, 0, 3, 6, 8, 5, 4, 7, 7, 5, 8, 0, 7>>

I64MinMag == <<9, 2, 2, 3, 3, 7, 2, 0, 3, 6, 8, 5, 4, 7, 7, 5, 8, 0, 8>>

IsDigit(b) == b >= 48 /\ b <= 57

\* parse_i64 saturating at the ends of the i64 range instead of failing
parse_i64_saturating(s) ==
    LET signed == Len(s) > 0 /\ s[1] \in {43, 45}
        neg    == Len(s) > 0 /\ s[1] = 45
        body   == IF signed THEN Tail(s) ELSE s
    IN  IF body = <<>> \/ \E i \in 1..Len(body) : ~IsDigit(body[i]) THEN None
        ELSE LET mag == strip_zeros([i \in 1..Len(body) |-> body[i] - 48]) IN
            IF MagLess(IF neg THEN I64MinMag ELSE I64MaxMag, mag)
            THEN [st |-> "ok", v |-> [neg |-> neg, mag |-> IF neg THEN I64MinMag ELSE I64MaxMag]]
            ELSE [st |-> "ok", v |-> [neg |-> neg /\ mag # <<0>>, mag |-> mag]]

\* str::parse::<i64>: an optional sign, then one or more decimal digits and nothing
\* else; a value outside the i64 range is an error.
parse_i64(s) ==
    LET signed == Len(s) > 0 /\ s[1] \in {43, 45}
        neg    == Len(s) > 0 /\ s[1] = 45
        body   == IF signed THEN Tail(s) ELSE s
    IN  IF body = <<>> \/ \E i \in 1..Len(body) : ~IsDigit(body[i]) THEN None
        ELSE LET mag == strip_zeros([i \in 1..Len(body) |-> body[i] - 48]) IN
            IF MagLess(IF neg THEN I64MinMag ELSE I64MaxMag, mag) THEN None
            ELSE [st |-> "ok", v |-> [neg |-> neg /\ mag # <<0>>, mag |-> mag]]

(***************************************************************************)
(* http.rs: the framing policy                                             *)
(***************************************************************************)
MAX_CONTENT_LENGTH == 104857600

\* "content-length", "transfer-encoding", "chunked", "connection", "close",
\* "keep-alive"
ContentLengthName == <<99, 111, 110, 116, 101, 110, 116, 45, 108, 101, 110, 103, 116, 104>>

TransferEncodingName ==
    <<116, 114, 97, 110, 115, 102, 101, 114, 45, 101, 110, 99, 111, 100, 105, 110, 103>>

ChunkedToken == <<99, 104, 117, 110, 107, 101, 100>>

ConnectionName == <<99, 111, 110, 110, 101, 99, 116, 105, 111, 110>>

CloseToken == <<99, 108, 111, 115, 101>>

KeepAliveToken == <<107, 101, 101, 112, 45, 97, 108, 105, 118, 101>>

\* http.rs:60  if v > 104_857_600 { return Err(()); }
ContentLengthTooBig(v) == I64Greater(v, I64(MAX_CONTENT_LENGTH))

\* http.rs:66  if values.len() > 1 { return Err(()); }
ContentLengthConflict(values) == Len(values) > 1

\* push_distinct keeping every value, repeated or not
push_always(values, v) == Append(values, v)

\* http.rs:61  if !values.contains(&v) { values.push(v); }
push_distinct(values, v) ==
    IF \E k \in 1..Len(values) : values[k] = v THEN values ELSE Append(values, v)

\* http.rs:56-65  the scan of the headers from index i on, values being the distinct
\* values seen so far
RECURSIVE content_length_scan(_, _, _)
content_length_scan(headers, i, values) ==
    IF i > Len(headers) THEN [st |-> "ok", values |-> values]
    ELSE LET h == headers[i]
             p == IF Utf8Valid(h.value) THEN parse_i64(trim(h.value)) ELSE None
         IN  IF eq_ignore_ascii_case(h.name, ContentLengthName) /\ p.st = "ok" THEN
                 IF ContentLengthTooBig(p.v) THEN None
                 ELSE content_length_scan(headers, i + 1, push_distinct(values, p.v))
             ELSE content_length_scan(headers, i + 1, values)

\* Ok(Some(v)): [st "ok", some TRUE, v]; Ok(None): [st "ok", some FALSE]; Err: None
parse_content_length(headers) ==
    LET r == content_length_scan(headers, 1, <<>>) IN
    IF r.st # "ok" THEN None
    ELSE IF ContentLengthConflict(r.values) THEN None
    ELSE IF r.values = <<>> THEN [st |-> "ok", some |-> FALSE]
    ELSE [st |-> "ok", some |-> TRUE, v |-> r.values[1]]

\* h.value.windows(7).any(|w| w.eq_ignore_ascii_case(b"chunked"))
has_chunked_window(value) ==
    \E k \in 1..(Len(value) - 6) : eq_ignore_ascii_case(SubSeq(value, k, k + 6), ChunkedToken)

\* is_chunked looking at the first Transfer-Encoding header alone
is_chunked_first_only(headers) ==
    \E i \in 1..Len(headers) :
        /\ eq_ignore_ascii_case(headers[i].name, TransferEncodingName)
        /\ \A k \in 1..(i - 1) : ~eq_ignore_ascii_case(headers[k].name, TransferEncodingName)
        /\ has_chunked_window(headers[i].value)

\* http.rs:70-75
is_chunked(headers) ==
    \E i \in 1..Len(headers) :
        /\ eq_ignore_ascii_case(headers[i].name, TransferEncodingName)
        /\ has_chunked_window(headers[i].value)

\* effective_content_length without the chunked override
effective_content_length_no_override(headers) ==
    LET r == parse_content_length(headers) IN
    IF r.st # "ok" THEN None
    ELSE IF r.some THEN [st |-> "ok", cl |-> r.v]
    ELSE [st |-> "ok", cl |-> I64(-1)]

\* http.rs:117-126 and 171-180: the effective content length, Err when the message
\* is rejected
effective_content_length(headers) ==
    LET chunked == is_chunked(headers) IN
    IF chunked THEN [st |-> "ok", cl |-> I64(-1)]
    ELSE LET r == parse_content_length(headers) IN
        IF r.st # "ok" THEN None
        ELSE IF r.some THEN [st |-> "ok", cl |-> r.v]
        ELSE [st |-> "ok", cl |-> I64(-1)]

\* http.rs:77-96  the header array: views into the caller's buffer
alloc_headers(headers) == headers

\* http.rs:77-96  the block alloc_headers allocates: the array, unless there is no
\* header; names and values are views into the caller's buffer
alloc_headers_blocks(headers) ==
    IF Len(headers) = 0 THEN {} ELSE {Block("headers", 0, "array")}

\* has_body without the exceptions for 204 and 304
has_body_no_exceptions(status) == status >= 200

\* http.rs:240-244
free_headers(ptr, count) ==
    IF ptr = <<>> \/ count = 0 THEN <<>> ELSE <<Block("headers", 0, "array")>>

\* http.rs:222-229  on a non-null req
iris_http_free_request(r) == free_headers(r.headers, r.headers_count)

\* http.rs:232-238  on a non-null resp
iris_http_free_response(r) == free_headers(r.headers, r.headers_count)

\* http.rs:183
has_body(status) == status >= 200 /\ status # 204 /\ status # 304

\* has_framing looking at the content length alone
has_framing_length_only(cl, chunked) == ~cl.neg

\* http.rs:184  cl >= 0 || chunked
has_framing(cl, chunked) == ~cl.neg \/ chunked

\* should_close comparing the Connection value byte for byte
should_close_exact(headers, version_minor) ==
    LET idx == {i \in 1..Len(headers) : eq_ignore_ascii_case(headers[i].name, ConnectionName)}
    IN  IF idx = {} THEN version_minor = 0
        ELSE LET first == CHOOSE i \in idx : \A k \in idx : i <= k
                 v     == headers[first].value
             IN  IF ~Utf8Valid(v) THEN version_minor = 0
                 ELSE IF v = CloseToken THEN TRUE
                 ELSE IF v = KeepAliveToken THEN FALSE
                 ELSE version_minor = 0

\* http.rs:187-194
should_close(headers, version_minor) ==
    LET idx == {i \in 1..Len(headers) : eq_ignore_ascii_case(headers[i].name, ConnectionName)}
    IN  IF idx = {} THEN version_minor = 0
        ELSE LET first == CHOOSE i \in idx : \A k \in idx : i <= k
                 v     == headers[first].value
             IN  IF ~Utf8Valid(v) THEN version_minor = 0
                 ELSE IF eq_ignore_ascii_case(v, CloseToken) THEN TRUE
                 ELSE IF eq_ignore_ascii_case(v, KeepAliveToken) THEN FALSE
                 ELSE version_minor = 0

\* NullOrEmpty not looking at the out pointer
NullOrEmpty_no_out(a) == a.data_null \/ a.len = 0

\* NullOrEmpty letting an empty buffer through to the lexer
NullOrEmpty_lenient(a) == a.data_null \/ a.out_null

\* http.rs:108, 159  if data.is_null() || out.is_null() || len == 0 { return -2; }
NullOrEmpty(a) == a.data_null \/ a.out_null \/ a.len = 0

\* header_end_index reporting the length of the whole buffer
header_end_index_len(a) == a.len

\* http.rs:137, 205  header_end_index: offset, the count of bytes the lexer consumed
header_end_index(a) == a.lex.offset

\* a = [data_null, out_null, len, lex]: the arguments, with the buffer given by what
\* the header lexer (httparse) makes of it: lex.status is "complete", "partial" or
\* "error"; a complete lex carries offset, version, headers and the start line.
iris_http_parse_request(a) ==
    IF NullOrEmpty(a) THEN
        Failed(-2)
    ELSE IF a.lex.status = "complete" THEN
        LET chunked == is_chunked(a.lex.headers)
            cl      == effective_content_length(a.lex.headers)
        IN  IF cl.st # "ok" THEN Failed(-2)
            ELSE [aborted |-> FALSE, rc |-> 0,
                  allocs |-> alloc_headers_blocks(a.lex.headers),
                  out |-> [written |-> TRUE,
                           method |-> a.lex.method,
                           path |-> a.lex.path,
                           version_minor |-> a.lex.version,
                           header_end_index |-> header_end_index(a),
                           content_length |-> cl.cl,
                           is_chunked |-> chunked,
                           headers |-> alloc_headers(a.lex.headers),
                           headers_count |-> Len(a.lex.headers)]]
    ELSE IF a.lex.status = "partial" THEN Failed(-1)
    ELSE Failed(-2)

iris_http_parse_response(a) ==
    IF NullOrEmpty(a) THEN
        Failed(-2)
    ELSE IF a.lex.status = "complete" THEN
        LET chunked == is_chunked(a.lex.headers)
            cl      == effective_content_length(a.lex.headers)
        IN  IF cl.st # "ok" THEN Failed(-2)
            ELSE [aborted |-> FALSE, rc |-> 0,
                  allocs |-> alloc_headers_blocks(a.lex.headers),
                  out |-> [written |-> TRUE,
                           status_code |-> a.lex.code,
                           reason |-> a.lex.reason,
                           version_minor |-> a.lex.version,
                           header_end_index |-> header_end_index(a),
                           content_length |-> cl.cl,
                           is_chunked |-> chunked,
                           has_body |-> has_body(a.lex.code),
                           has_framing |-> has_framing(cl.cl, chunked),
                           should_close |-> should_close(a.lex.headers, a.lex.version),
                           headers |-> alloc_headers(a.lex.headers),
                           headers_count |-> Len(a.lex.headers)]]
    ELSE IF a.lex.status = "partial" THEN Failed(-1)
    ELSE Failed(-2)

(***************************************************************************)
(* The inputs of the HTTP parsers: what the header lexer returns for the   *)
(* caller's buffer.  Header lists are drawn from a pool that holds each    *)
(* kind of value the framing policy tells apart.                           *)
(***************************************************************************)
MaxHeaderList == 3

\* "Content-Length: 10"
H_CL_10 ==
    [name  |-> <<67, 111, 110, 116, 101, 110, 116, 45, 76, 101, 110, 103, 116, 104>>,
     value |-> <<49, 48>>]

\* "content-length: 20"
H_cl_20 ==
    [name  |-> <<99, 111, 110, 116, 101, 110, 116, 45, 108, 101, 110, 103, 116, 104>>,
     value |-> <<50, 48>>]

\* "Content-Length: 104857600"
H_CL_max ==
    [name  |-> <<67, 111, 110, 116, 101, 110, 116, 45, 76, 101, 110, 103, 116, 104>>,
     value |-> <<49, 48, 52, 56, 53, 55, 54, 48, 48>>]

\* "CONTENT-LENGTH: 104857601"
H_CL_over ==
    [name  |-> <<67, 79, 78, 84, 69, 78, 84, 45, 76, 69, 78, 71, 84, 72>>,
     value |-> <<49, 48, 52, 56, 53, 55, 54, 48, 49>>]

\* "Content-Length: -5"
H_CL_neg ==
    [name  |-> <<67, 111, 110, 116, 101, 110, 116, 45, 76, 101, 110, 103, 116, 104>>,
     value |-> <<45, 53>>]

\* "Content-Length: 1x"
H_CL_junk ==
    [name  |-> <<67, 111, 110, 116, 101, 110, 116, 45, 76, 101, 110, 103, 116, 104>>,
     value |-> <<49, 120>>]

\* "Content-Length: 99999999999999999999"
H_CL_huge ==
    [name  |-> <<67, 111, 110, 116, 101, 110, 116, 45, 76, 101, 110, 103, 116, 104>>,
     value |-> <<57, 57, 57, 57, 57, 57, 57, 57, 57, 57, 57, 57, 57, 57, 57, 57, 57, 57, 57, 57>>]

\* "Transfer-Encoding: chunked"
H_TE_chunked ==
    [name  |-> <<84, 114, 97, 110, 115, 102, 101, 114, 45, 69, 110, 99, 111, 100, 105, 110, 103>>,
     value |-> <<99, 104, 117, 110, 107, 101, 100>>]

\* "transfer-encoding: gzip, Chunked"
H_te_list ==
    [name  |-> <<116, 114, 97, 110, 115, 102, 101, 114, 45, 101, 110, 99, 111, 100, 105, 110, 103>>,
     value |-> <<103, 122, 105, 112, 44, 32, 67, 104, 117, 110, 107, 101, 100>>]

\* "Transfer-Encoding: gzip"
H_TE_gzip ==
    [name  |-> <<84, 114, 97, 110, 115, 102, 101, 114, 45, 69, 110, 99, 111, 100, 105, 110, 103>>,
     value |-> <<103, 122, 105, 112>>]

\* "Connection: Close"
H_Conn_close ==
    [name  |-> <<67, 111, 110, 110, 101, 99, 116, 105, 111, 110>>,
     value |-> <<67, 108, 111, 115, 101>>]

\* "connection: keep-alive"
H_conn_keep ==
    [name  |-> <<99, 111, 110, 110, 101, 99, 116, 105, 111, 110>>,
     value |-> <<107, 101, 101, 112, 45, 97, 108, 105, 118, 101>>]

\* "Connection: upgrade"
H_Conn_upgrade ==
    [name  |-> <<67, 111, 110, 110, 101, 99, 116, 105, 111, 110>>,
     value |-> <<117, 112, 103, 114, 97, 100, 101>>]

\* "content-length: 010"
H_cl_010 ==
    [name  |-> <<99, 111, 110, 116, 101, 110, 116, 45, 108, 101, 110, 103, 116, 104>>,
     value |-> <<48, 49, 48>>]

\* "Content-Length:" with an empty value
H_CL_empty ==
    [name  |-> <<67, 111, 110, 116, 101, 110, 116, 45, 76, 101, 110, 103, 116, 104>>,
     value |-> <<>>]

\* "Transfer-Encoding: xChunKedx"
H_TE_mid ==
    [name  |-> <<84, 114, 97, 110, 115, 102, 101, 114, 45, 69, 110, 99, 111, 100, 105, 110, 103>>,
     value |-> <<120, 67, 104, 117, 110, 75, 101, 100, 120>>]

\* "Transfer-Encoding: chunke"
H_TE_short ==
    [name  |-> <<84, 114, 97, 110, 115, 102, 101, 114, 45, 69, 110, 99, 111, 100, 105, 110, 103>>,
     value |-> <<99, 104, 117, 110, 107, 101>>]

\* "X-Encoding: chunked"
H_X_chunked ==
    [name  |-> <<88, 45, 69, 110, 99, 111, 100, 105, 110, 103>>,
     value |-> <<99, 104, 117, 110, 107, 101, 100>>]

\* Further header lists, of one or two headers: a value written in two ways, an empty
\* value, and values that hold the word chunked in the middle, in part, or under
\* another header name.
ExtraPool ==
    {H_CL_10, H_cl_010, H_CL_empty, H_CL_junk, H_CL_huge, H_TE_mid, H_TE_short, H_X_chunked,
     H_TE_gzip}

ExtraLists == UNION {[1..n -> ExtraPool] : n \in 1..2}

HeaderPool ==
    {H_CL_10, H_cl_20, H_CL_max, H_CL_over, H_CL_neg, H_CL_junk, H_CL_huge,
     H_TE_chunked, H_te_list, H_TE_gzip, H_Conn_close, H_conn_keep, H_Conn_upgrade}

HeaderLists == UNION {[1..n -> HeaderPool] : n \in 0..MaxHeaderList}

\* "GET", "/x", "OK"
MethodGet == <<71, 69, 84>>

PathX == <<47, 120>>

ReasonOK == <<79, 75>>

\* The buffer is BodyLen bytes longer than its header block.
BodyLens == {0, 4}

HeaderBlockLen == 40

\* <<status code, minor version>> of the status lines
StatusLines == {<<100, 1>>, <<200, 0>>, <<200, 1>>, <<204, 1>>, <<304, 0>>}

CompleteRequest(hs, body) ==
    [data_null |-> FALSE, out_null |-> FALSE, len |-> HeaderBlockLen + body,
     lex |-> [status |-> "complete", offset |-> HeaderBlockLen, version |-> 1,
              headers |-> hs, method |-> MethodGet, path |-> PathX]]

CompleteResponse(hs, code, version) ==
    [data_null |-> FALSE, out_null |-> FALSE, len |-> HeaderBlockLen,
     lex |-> [status |-> "complete", offset |-> HeaderBlockLen, version |-> version,
              headers |-> hs, code |-> code, reason |-> ReasonOK]]

\* A buffer the lexer reports as incomplete or as invalid, and the calls with a null
\* pointer or no bytes.
OtherHttpInputs ==
    {[data_null |-> FALSE, out_null |-> FALSE, len |-> n, lex |-> [status |-> st]] :
        n \in {1, HeaderBlockLen}, st \in {"partial", "error"}}
    \cup {[data_null |-> dn, out_null |-> on, len |-> n, lex |-> [status |-> "partial"]] :
            dn \in BOOLEAN, on \in BOOLEAN, n \in {0, 1}}

\* The first n bytes of a message whose header block is HeaderBlockLen bytes long,
\* as a caller reading from a socket hands them over: the lexer reports every such
\* buffer as incomplete.
GrowingInputs ==
    {[data_null |-> FALSE, out_null |-> FALSE, len |-> n, growing |-> TRUE,
      lex |-> [status |-> "partial"]] : n \in 0..(HeaderBlockLen - 1)}

RequestInputs ==
    {CompleteRequest(hs, 0) : hs \in HeaderLists}
    \cup {CompleteRequest(<<>>, body) : body \in BodyLens}
    \cup {CompleteRequest(hs, 0) : hs \in ExtraLists}
    \cup OtherHttpInputs \cup GrowingInputs

\* Further status codes, over the header lists that declare a body.
MoreStatusCodes == {101, 199, 201, 205, 303, 305, 404, 599, 999}

ResponseInputs ==
    {CompleteResponse(hs, sl[1], sl[2]) : hs \in HeaderLists, sl \in StatusLines}
    \cup {CompleteResponse(hs, code, 1) :
             hs \in {<<>>, <<H_CL_10>>, <<H_TE_chunked>>}, code \in MoreStatusCodes}
    \cup {CompleteResponse(hs, 200, 1) : hs \in ExtraLists}
    \cup {[CompleteResponse(<<H_CL_10>>, 200, 1) EXCEPT !.len = HeaderBlockLen + body] :
             body \in BodyLens}
    \cup OtherHttpInputs \cup GrowingInputs

(***************************************************************************)
(* The inputs of the DNS parser.  A message is a 12-byte header followed   *)
(* by up to MaxPieces pieces drawn from a pool; the declared counts are    *)
(* drawn independently, so they may over- or under-state what follows.     *)
(* A piece carries its bytes and, for the claims, what it is:              *)
(*   kind "q"   a question that decodes wherever it stands,                *)
(*   kind "rr"  a record that decodes wherever it stands,                  *)
(*   kind "bad" bytes at which no name, hence no question or record,       *)
(*              decodes, whatever follows,                                 *)
(*   kind "ctx" bytes whose decoding depends on their place in the message *)
(*              (compression pointers, lengths reaching into what follows).*)
(***************************************************************************)
MaxPieces == 2

MaxChain == 11

Piece(kind, bytes) == [kind |-> kind, bytes |-> bytes]

\* root name, type A, class IN
Q_Root == Piece("q", <<0, 0, 1, 0, 1>>)

\* "a", type AAAA, class IN
Q_A == Piece("q", <<1, 97, 0, 0, 28, 0, 1>>)

\* a pointer to offset 12, type A, class IN
Q_Ptr == Piece("ctx", <<192, 12, 0, 1, 0, 1>>)

\* root name, A, IN, ttl 60, rdata 10.0.0.1
RR_A == Piece("rr", <<0, 0, 1, 0, 1, 0, 0, 0, 60, 0, 4, 10, 0, 0, 1>>)

\* "b", TXT, IN, ttl 256, rdata "hi"
RR_TXT == Piece("rr", <<1, 98, 0, 0, 16, 0, 1, 0, 0, 1, 0, 0, 3, 2, 104, 105>>)

\* root name, type 99, IN, ttl 0, empty rdata
RR_Empty == Piece("rr", <<0, 0, 99, 0, 1, 0, 0, 0, 0, 0, 0>>)

\* name and CNAME rdata both a pointer to offset 12
RR_CNAME == Piece("ctx", <<192, 12, 0, 5, 0, 1, 0, 0, 0, 9, 0, 2, 192, 12>>)

\* root name, MX, rdata: priority 5 and the first byte of a pointer
RR_MX == Piece("ctx", <<0, 0, 15, 0, 1, 0, 0, 0, 9, 0, 3, 0, 5, 192>>)

\* root name, A, a declared rdata length of 6 with one byte present
RR_Long == Piece("ctx", <<0, 0, 1, 0, 1, 0, 0, 0, 9, 0, 6, 7>>)

\* a record cut after three bytes
RR_Cut == Piece("ctx", <<0, 0, 1>>)

\* a label length of 64
Bad_Label == Piece("bad", <<64, 97>>)

\* a label that is not UTF-8
Bad_Utf8 == Piece("bad", <<1, 255, 0>>)

PiecePool ==
    {Q_Root, Q_A, Q_Ptr, RR_A, RR_TXT, RR_Empty, RR_CNAME, RR_MX, RR_Long, RR_Cut,
     Bad_Label, Bad_Utf8}

PieceSeqs == UNION {[1..n -> PiecePool] : n \in 0..MaxPieces}

CountVals == {0, 1, 2}

BigCounts == {256, 257}

\* id 0x1234, flags 0x8180 (a response, RD and RA set)
DnsHeader(counts) ==
    <<18, 52, 129, 128>>
    \o Concat([i \in 1..4 |-> <<counts[i] \div 256, counts[i] % 256>>])

PieceBytes(ps) == Concat([i \in 1..Len(ps) |-> ps[i].bytes])

\* fam names the family the buffer comes from, pieces its pieces, k the number of
\* pointers of a chain; start is the offset given to parse_name when it is called on
\* its own.
DnsArgs(buf, fam, ps, k) ==
    [data_null |-> FALSE, out_null |-> FALSE, buf |-> buf, fam |-> fam, pieces |-> ps,
     k |-> k, start |-> HeaderLen]

PieceInputs ==
    {DnsArgs(DnsHeader(c) \o PieceBytes(ps), "pieces", ps, 0) :
        c \in [1..4 -> CountVals], ps \in PieceSeqs}

\* one count of 256 or 257, the others 0
BigCountVecs == {[i \in 1..4 |-> IF i = k THEN c ELSE 0] : k \in 1..4, c \in BigCounts}

BigCountInputs ==
    {DnsArgs(DnsHeader(c) \o PieceBytes(ps), "bigcount", ps, 0) :
        c \in BigCountVecs, ps \in PieceSeqs}

\* every prefix of a well-formed message shorter than its header, and constant fills
ShortInputs ==
    {DnsArgs(SubSeq(DnsHeader(<<1, 0, 0, 0>>), 1, n), "short", <<>>, 0) : n \in 0..(HeaderLen - 1)}
    \cup {DnsArgs([i \in 1..n |-> b], "short", <<>>, 0) : n \in 1..(HeaderLen - 1), b \in {0, 192, 255}}

\* One question whose name is a run of k pointers, each to the next two bytes, ending
\* in the name "a": decoding it takes exactly k jumps.
ChainName(k) ==
    Concat([i \in 1..k |-> <<192, HeaderLen + 2 * i>>]) \o <<1, 97, 0>>

ChainInputs ==
    {DnsArgs(DnsHeader(<<1, 0, 0, 0>>) \o ChainName(k) \o <<0, 1, 0, 1>>, "chain", <<>>, k) :
        k \in 0..MaxChain}

\* One question whose name never ends: a pointer to itself, two pointers to each
\* other, a label followed by a pointer back to it, a pointer past the end.
CycleNames == {<<192, 12>>, <<192, 14, 192, 12>>, <<1, 97, 192, 12>>, <<255, 255>>}

CycleInputs ==
    {DnsArgs(DnsHeader(<<1, 0, 0, 0>>) \o n \o <<0, 1, 0, 1>>, "cycle", <<>>, 0) :
        n \in CycleNames}

\* Two questions, the first named "a" at offset 12; the name of the second is a
\* pointer to it, bare or after one or two labels, a pointer into the middle of
\* itself, or labels alone.
MixedNames ==
    {<<192, 12>>, <<1, 98, 192, 12>>, <<1, 98, 1, 99, 192, 12>>, <<1, 98, 192, 21>>,
     <<1, 98, 1, 99, 0>>}

MixedInputs ==
    {DnsArgs(DnsHeader(<<2, 0, 0, 0>>) \o <<1, 97, 0, 0, 1, 0, 1>> \o n \o <<0, 1, 0, 1>>,
             "mixed", <<>>, 0) : n \in MixedNames}

\* MaxCount root questions, and MaxCount records of empty rdata in the authority
\* section: the section loops run their full count.
ManyInputs ==
    {DnsArgs(DnsHeader(<<MaxCount, 0, 0, 0>>) \o Concat([i \in 1..MaxCount |-> Q_Root.bytes]),
             "many", <<>>, 0),
     DnsArgs(DnsHeader(<<0, 0, MaxCount, 0>>) \o Concat([i \in 1..MaxCount |-> RR_Empty.bytes]),
             "many", <<>>, 0)}

\* A message that is its header alone, one for every flags word; id 0x1234.
FlagsInputs ==
    {DnsArgs(<<18, 52, hi, lo, 0, 0, 0, 0, 0, 0, 0, 0>>, "flags", <<>>, 0) :
        hi \in 0..255, lo \in 0..255}

\* The record types format_rdata knows, and some it does not.
KnownTypes == {1, 2, 5, 12, 15, 16, 28, 33, 64, 65}

RdataTypes == KnownTypes \cup {0, 6, 99, 255, 65535}

\* rdata payloads: empty; four, three and sixteen bytes; a pointer to the name "a" at
\* offset 12, bare and after two, six and two zero bytes; the same with the pointer
\* cut after its first byte; an over-long label; text chunks, whole, cut and not
\* UTF-8; a six-byte payload.
RdataPool ==
    {<<>>, <<10, 0, 0, 1>>, <<1, 2, 3>>,
     <<32, 1, 13, 184, 0, 0, 0, 0, 0, 0, 0, 0, 0, 0, 0, 1>>,
     <<192, 12>>, <<192>>, <<64, 97>>, <<1, 98, 192, 12>>,
     <<0, 5, 192, 12>>, <<0, 5, 192>>, <<0, 5, 64, 97>>, <<0, 0, 192, 12>>, <<0, 0, 192>>,
     <<0, 1, 0, 2, 0, 80, 192, 12>>, <<0, 1, 0, 2, 0, 80, 192>>, <<0, 1, 0, 2, 0, 80>>,
     <<2, 104, 105>>, <<2, 104, 105, 5, 120>>, <<1, 255, 1, 120>>}

\* format_rdata is called as parse_rr calls it: rd is the last start.. bytes of msg.
RdataInputs ==
    {[rtype |-> t, rd |-> rd, msg |-> DnsHeader(<<0, 0, 0, 0>>) \o <<1, 97, 0>> \o rd,
      start |-> HeaderLen + 3] : t \in RdataTypes, rd \in RdataPool}

\* the calls with a null pointer
NullInputs ==
    {[DnsArgs(DnsHeader(<<0, 0, 0, 0>>), "null", <<>>, 0)
        EXCEPT !.data_null = dn, !.out_null = on] : dn \in BOOLEAN, on \in BOOLEAN}

DnsInputs ==
    PieceInputs \cup BigCountInputs \cup ShortInputs \cup ChainInputs \cup CycleInputs
    \cup NullInputs \cup MixedInputs

\* The buffers on which parse_name is followed step by step, from every offset.
NameInputs == ChainInputs \cup CycleInputs \cup ShortInputs \cup MixedInputs

\* The buffers on which the loops of parse_dns are followed step by step.
StepCountVecs == BigCountVecs \cup {<<1, 1, 1, 1>>, <<2, 2, 2, 2>>}

StepInputs ==
    {DnsArgs(DnsHeader(c) \o PieceBytes(ps), "pieces", ps, 0) :
        c \in StepCountVecs, ps \in PieceSeqs}
    \cup ManyInputs \cup ChainInputs \cup CycleInputs \cup ShortInputs \cup MixedInputs

(***************************************************************************)
(* The state machine.  A state is one call: the function called (api), its *)
(* arguments (input), whether it has returned (phase), its return code and *)
(* the caller's out structure.  nst and mst are the loop states of         *)
(* parse_name and parse_dns when the loops are followed step by step.      *)
(***************************************************************************)
\* Domain names handed to the builder: up to MaxComponents components joined by
\* dots, among them the empty component, a label of exactly 63 bytes, labels of 64
\* bytes (one with a two-byte character across the cut) and a non-ASCII label.
MaxComponents == 3

L63 == [i \in 1..63 |-> 97]

L64 == [i \in 1..64 |-> 98]

L64_Split == [i \in 1..62 |-> 99] \o <<195, 169>>

ComponentPool == {<<>>, <<97>>, <<119, 119, 119>>, <<195, 169>>, L63, L64, L64_Split}

ComponentSeqs == UNION {[1..n -> ComponentPool] : n \in 0..MaxComponents}

DomainNames == {Join(cs, <<46>>) : cs \in ComponentSeqs}

BuildArgs(domain, rtype, id, rd) ==
    [domain_null |-> FALSE, out_data_null |-> FALSE, out_len_null |-> FALSE,
     domain |-> domain, record_type |-> rtype, id |-> id, recursion_desired |-> rd]

QueryTypes == {1, 28, 255, 256, 65535}

QueryIds == {0, 1, 4660, 65535}

BuildInputs ==
    {BuildArgs(d, 1, 4660, rd) : d \in DomainNames, rd \in BOOLEAN}
    \cup {BuildArgs(<<119, 119, 119, 46, 97>>, t, id, rd) :
             t \in QueryTypes, id \in QueryIds, rd \in BOOLEAN}
    \cup {BuildArgs(<<97, 255>>, 1, 1, TRUE)}
    \cup {[BuildArgs(<<97>>, 1, 1, TRUE) EXCEPT ![f] = TRUE] :
             f \in {"domain_null", "out_data_null", "out_len_null"}}

Idle == [st |-> "idle"]

\* The heap as the caller sees it: the blocks the library has allocated and not
\* released (live), those it has released, whether a release went wrong (a block
\* released twice or never allocated), and whether the release function has run.
EmptyHeap == [live |-> {}, made |-> {}, released |-> {}, fault |-> FALSE, freed |-> FALSE]

InitCall(a, in) ==
    /\ api = a
    /\ input = in
    /\ phase = "ready"
    /\ rc = 0
    /\ out = Unwritten
    /\ heap = EmptyHeap
    /\ nst = Idle
    /\ mst = Idle

Return(r) ==
    /\ phase' = IF r.aborted THEN "aborted" ELSE "returned"
    /\ rc' = r.rc
    /\ out' = r.out
    /\ heap' = [heap EXCEPT !.live = @ \cup r.allocs, !.made = @ \cup r.allocs]
    /\ UNCHANGED <<api, input, nst, mst>>

DnsParse ==
    /\ api = "dns"
    /\ phase = "ready"
    /\ Return(iris_dns_parse(input))

HttpParseRequest ==
    /\ api = "http_request"
    /\ phase = "ready"
    /\ Return(iris_http_parse_request(input))

HttpParseResponse ==
    /\ api = "http_response"
    /\ phase = "ready"
    /\ Return(iris_http_parse_response(input))

Init == \E in \in DnsInputs : InitCall("dns", in)

Next == DnsParse

Spec == Init /\ [][Next]_vars

\* format_rdata on its own
InitRdata == \E in \in RdataInputs : InitCall("format_rdata", in)

FormatRdata ==
    /\ api = "format_rdata"
    /\ phase = "ready"
    /\ LET d == format_rdata(input.rtype, input.rd, input.msg, input.start) IN
        Return([aborted |-> d.st = "panic", rc |-> 0, allocs |-> {},
                out |-> IF d.st = "panic" THEN Unwritten
                        ELSE [written |-> TRUE, display |-> d.text]])

NextRdata == FormatRdata

SpecRdata == InitRdata /\ [][NextRdata]_vars

\* iris_dns_parse on every flags word
InitFlags == \E in \in FlagsInputs : InitCall("dns", in)

SpecFlags == InitFlags /\ [][Next]_vars

InitHttp ==
    \/ \E in \in RequestInputs : InitCall("http_request", in)
    \/ \E in \in ResponseInputs : InitCall("http_response", in)

NextHttp == HttpParseRequest \/ HttpParseResponse

SpecHttp == InitHttp /\ [][NextHttp]_vars

\* The blocks are released in order: releasing a block that is not live, or one block
\* twice, is a fault.
Release(h, blocks) ==
    [h EXCEPT !.live = @ \ {blocks[i] : i \in 1..Len(blocks)},
              !.released = @ \cup {blocks[i] : i \in 1..Len(blocks)},
              !.fault = \/ @
                        \/ \E i \in 1..Len(blocks) : blocks[i] \notin h.live
                        \/ \E i, j \in 1..Len(blocks) : i < j /\ blocks[i] = blocks[j],
              !.freed = TRUE]

\* The caller releases a structure that a parse has filled, once.
Free(blocks) ==
    /\ phase = "returned" /\ rc = 0 /\ ~heap.freed
    /\ heap' = Release(heap, blocks)
    /\ UNCHANGED <<api, input, phase, rc, out, nst, mst>>

DnsFreeMessage == api = "dns" /\ Free(iris_dns_free_message(out))

HttpFreeRequest == api = "http_request" /\ Free(iris_http_free_request(out))

HttpFreeResponse == api = "http_response" /\ Free(iris_http_free_response(out))

\* The three parsers, each call followed by the release of what it returned.
InitParse == Init \/ InitHttp

NextParse ==
    \/ DnsParse \/ HttpParseRequest \/ HttpParseResponse
    \/ DnsFreeMessage \/ HttpFreeRequest \/ HttpFreeResponse

SpecParse == InitParse /\ [][NextParse]_vars

\* The arguments of build_query_bytes: domain is a &str, hence UTF-8.
QueryInputs ==
    {a \in BuildInputs :
        ~a.domain_null /\ ~a.out_data_null /\ ~a.out_len_null /\ Utf8Valid(a.domain)}

InitBuild ==
    \/ \E in \in BuildInputs : InitCall("dns_build_query", in)
    \/ \E d \in DomainNames : InitCall("encode_decode", BuildArgs(d, 1, 0, FALSE))
    \/ \E in \in QueryInputs : InitCall("build_parse", in)

DnsBuildQuery ==
    /\ api = "dns_build_query"
    /\ phase = "ready"
    /\ Return(iris_dns_build_query(input))

EncodeDecode ==
    /\ api = "encode_decode"
    /\ phase = "ready"
    /\ Return(encode_decode(input.domain))

BuildParse ==
    /\ api = "build_parse"
    /\ phase = "ready"
    /\ Return(build_parse(input))

\* The caller releases the buffer of a built query with iris_free_bytes(data, len).
FreeBytes == api = "dns_build_query" /\ Free(iris_free_bytes(out.data, out.len))

NextBuild == DnsBuildQuery \/ EncodeDecode \/ BuildParse \/ FreeBytes

SpecBuild == InitBuild /\ [][NextBuild]_vars

\* parse_name(input.buf, input.start) and parse_dns(input.buf), one loop iteration
\* at a time.  No call is in progress at first; a call enters one of the two
\* functions on a buffer and then runs its loop.
NoInput == DnsArgs(<<>>, "none", <<>>, 0)

InitSteps ==
    /\ api = "none"
    /\ input = NoInput
    /\ phase = "ready" /\ rc = 0 /\ out = Unwritten
    /\ heap = EmptyHeap
    /\ nst = Idle
    /\ mst = Idle

NameEnter ==
    /\ api = "none"
    /\ \E in \in NameInputs : \E start \in 0..Len(in.buf) :
            /\ input' = [in EXCEPT !.start = start]
            /\ nst' = NameInit(start)
    /\ api' = "parse_name"
    /\ UNCHANGED <<phase, rc, out, heap, mst>>

DnsEnter ==
    /\ api = "none"
    /\ \E in \in StepInputs :
            /\ input' = in
            /\ mst' = dns_enter(in.buf)
    /\ api' = "parse_dns"
    /\ UNCHANGED <<phase, rc, out, heap, nst>>

NameStep ==
    /\ api = "parse_name"
    /\ nst.st = "run"
    /\ nst' = name_step(input.buf, nst)
    /\ UNCHANGED <<api, input, phase, rc, out, heap, mst>>

DnsStep ==
    /\ api = "parse_dns"
    /\ mst.st = "run"
    /\ mst' = dns_step(input.buf, mst)
    /\ UNCHANGED <<api, input, phase, rc, out, heap, nst>>

NextSteps == NameEnter \/ DnsEnter \/ NameStep \/ DnsStep

\* Both functions are straight-line loops: a loop that can take a step takes it.
SpecSteps == InitSteps /\ [][NextSteps]_vars /\ WF_vars(NextSteps)

(***************************************************************************)
(* Claims about the HTTP framing policy (checked under SpecHttp)           *)
(***************************************************************************)
\* The call was made on a buffer holding a complete header block.
HttpComplete ==
    /\ api \in {"http_request", "http_response"}
    /\ ~input.data_null /\ ~input.out_null /\ input.len > 0
    /\ input.lex.status = "complete"

HttpReturned == HttpComplete /\ phase = "returned"

\* The integers carried by the Content-Length headers of the message.
ContentLengthValues(headers) ==
    {parse_i64(trim(headers[i].value)).v :
        i \in {k \in 1..Len(headers) :
                 /\ eq_ignore_ascii_case(headers[k].name, ContentLengthName)
                 /\ Utf8Valid(headers[k].value)
                 /\ parse_i64(trim(headers[k].value)).st = "ok"}}

\* C1: a complete header block with two Content-Length headers of differing integer
\* values is rejected with -2, whether or not the message is also chunked.
C1_ConflictRejected ==
    (HttpReturned /\ Cardinality(ContentLengthValues(input.lex.headers)) >= 2) => rc = -2

\* C2: in every structure returned with code 0, is_chunked implies content_length = -1.
C2_ChunkedWins ==
    (HttpReturned /\ rc = 0 /\ out.is_chunked) => out.content_length = I64(-1)

\* A chunked response that also carries a Content-Length value was accepted.
C2_Witness ==
    /\ HttpReturned /\ api = "http_response" /\ rc = 0 /\ out.is_chunked
    /\ I64(10) \in ContentLengthValues(input.lex.headers)

\* C3: a Content-Length value above 104857600 in a complete header block makes the
\* parse return -2.
C3_OversizeRejected ==
    (HttpReturned /\ \E v \in ContentLengthValues(input.lex.headers) :
                        I64Greater(v, I64(104857600)))
        => rc = -2

\* The header is named name, in any mix of upper and lower case.
Lower(t) == [i \in 1..Len(t) |-> ascii_lower(t[i])]

NameIs(h, name) == Lower(h.name) = name

\* The Content-Length headers of a header list, by index.
ContentLengthHeaders(headers) ==
    {k \in 1..Len(headers) : NameIs(headers[k], ContentLengthName)}

\* The value is a plain run of at most 18 decimal digits: a non-negative integer,
\* ValueOf(h), that fits 64 bits.
PlainInteger(h) ==
    /\ h.value # <<>> /\ Len(h.value) <= 18
    /\ \A i \in 1..Len(h.value) : IsDigit(h.value[i])

ValueOf(h) == [neg |-> FALSE, mag |-> strip_zeros([i \in 1..Len(h.value) |-> h.value[i] - 48])]

\* The value is no signed 64-bit decimal integer: it is empty, holds a character
\* that is neither a digit nor a leading sign before a digit, or is a run of digits
\* too long for 64 bits.
Unparseable(h) ==
    \/ h.value = <<>>
    \/ \E i \in 1..Len(h.value) :
          /\ ~IsDigit(h.value[i])
          /\ ~(i = 1 /\ h.value[1] \in {43, 45} /\ Len(h.value) > 1)
    \/ /\ \A i \in 1..Len(h.value) : IsDigit(h.value[i])
       /\ Len(strip_zeros([i \in 1..Len(h.value) |-> h.value[i] - 48])) > 19

\* The plain integer values carried by the Content-Length headers.
PlainValues(headers) ==
    {ValueOf(headers[k]) : k \in {j \in ContentLengthHeaders(headers) : PlainInteger(headers[j])}}

\* Some Transfer-Encoding header has a value with the word chunked in it, in any mix
\* of upper and lower case, at any position.
ChunkedDeclared(headers) ==
    \E i \in 1..Len(headers) :
        /\ NameIs(headers[i], TransferEncodingName)
        /\ \E k \in 0..(Len(headers[i].value) - 7) :
              Lower(SubSeq(headers[i].value, k + 1, k + 7)) = ChunkedToken

\* C24: a message that is not chunked and whose Content-Length headers all carry
\* the same integer v, 0 <= v <= 104857600, is accepted with content_length = v; a
\* message with no Content-Length header is accepted with content_length = -1.
C24_LengthAccepted ==
    HttpReturned =>
        /\ (/\ ~ChunkedDeclared(input.lex.headers)
            /\ ContentLengthHeaders(input.lex.headers) # {}
            /\ \A k \in ContentLengthHeaders(input.lex.headers) :
                   PlainInteger(input.lex.headers[k])
            /\ Cardinality(PlainValues(input.lex.headers)) = 1
            /\ \A v \in PlainValues(input.lex.headers) :
                   ~I64Greater(v, I64(MAX_CONTENT_LENGTH)))
           => /\ rc = 0
              /\ out.content_length \in PlainValues(input.lex.headers)
        /\ ContentLengthHeaders(input.lex.headers) = {}
           => (rc = 0 /\ out.content_length = I64(-1))

\* A request with "Content-Length: 10" and "content-length: 010" was accepted with
\* content_length = 10.
C24_Witness ==
    /\ HttpReturned /\ api = "http_request" /\ rc = 0
    /\ input.lex.headers = <<H_CL_10, H_cl_010>>
    /\ out.content_length = I64(10) /\ ~out.is_chunked

\* C25: is_chunked is true exactly when some Transfer-Encoding header, whichever
\* its place among the headers, has a value that holds "chunked" as a substring at
\* any position, upper and lower case alike.
C25_ChunkedScan ==
    (HttpReturned /\ rc = 0) => (out.is_chunked <=> ChunkedDeclared(input.lex.headers))

\* "Transfer-Encoding: gzip" followed by "Transfer-Encoding: xChunKedx": chunked.
C25_Witness ==
    /\ HttpReturned /\ rc = 0 /\ input.lex.headers = <<H_TE_gzip, H_TE_mid>>
    /\ out.is_chunked

\* C26: in every structure returned with code 0, content_length is -1 or within
\* 0..104857600.
C26_LengthRange ==
    (HttpReturned /\ rc = 0) =>
        \/ out.content_length = I64(-1)
        \/ /\ ~out.content_length.neg
           /\ ~I64Greater(out.content_length, I64(MAX_CONTENT_LENGTH))

\* C29: a Content-Length header whose value is no signed 64-bit decimal integer is
\* ignored: a message that is not chunked, with such a header and besides it only
\* plain integer values, is accepted with content_length = -1 when there is no
\* integer value, and with the integer value when there is one (at most 104857600).
C29_UnparseableIgnored ==
    (/\ HttpReturned
     /\ ~ChunkedDeclared(input.lex.headers)
     /\ \E k \in ContentLengthHeaders(input.lex.headers) : Unparseable(input.lex.headers[k])
     /\ \A k \in ContentLengthHeaders(input.lex.headers) :
            Unparseable(input.lex.headers[k]) \/ PlainInteger(input.lex.headers[k]))
    => /\ PlainValues(input.lex.headers) = {}
          => (rc = 0 /\ out.content_length = I64(-1))
       /\ (/\ Cardinality(PlainValues(input.lex.headers)) = 1
           /\ \A v \in PlainValues(input.lex.headers) :
                  ~I64Greater(v, I64(MAX_CONTENT_LENGTH)))
          => (rc = 0 /\ out.content_length \in PlainValues(input.lex.headers))

\* A response whose Content-Length headers are twenty nines and then 10 was accepted
\* with content_length = 10.
C29_Witness ==
    /\ HttpReturned /\ api = "http_response" /\ rc = 0
    /\ input.lex.headers = <<H_CL_huge, H_CL_10>>
    /\ Unparseable(H_CL_huge) /\ Unparseable(H_CL_junk) /\ Unparseable(H_CL_empty)
    /\ out.content_length = I64(10)

\* C20: a successful HTTP parse reports as header_end_index the offset at which the
\* lexer found the header block to end; the offset is within the buffer, the
\* buffer is left as the caller gave it, so that the bytes from the offset on are
\* the body, and on a buffer with no body the offset is the length of the buffer.
C20_HeaderEnd ==
    [][(/\ api \in {"http_request", "http_response"}
        /\ phase = "ready" /\ phase' = "returned" /\ rc' = 0)
       => /\ input' = input
          /\ out'.header_end_index = input.lex.offset
          /\ out'.header_end_index <= input.len
          /\ input.len - out'.header_end_index \in BodyLens
          /\ (input.len = input.lex.offset => out'.header_end_index = input.len)]_vars

\* A request and a response with a four-byte body were parsed: the offset is four
\* short of the length.
C20_Witness ==
    /\ api \in {"http_request", "http_response"} /\ phase = "returned" /\ rc = 0
    /\ input.len = HeaderBlockLen + 4
    /\ out.header_end_index = input.len - 4

\* The call was made, with both pointers set, on the first bytes of a message that
\* is not yet complete.
Growing ==
    /\ api \in {"http_request", "http_response"} /\ phase # "ready"
    /\ "growing" \in DOMAIN input

\* C14, as stated: every buffer that ends inside the header block of a message is
\* answered with -1.
C14_EveryPrefixIncomplete == Growing => (phase = "returned" /\ rc = -1)

\* C14, amended: every buffer of at least one byte that the lexer reports as
\* incomplete is answered with -1 and nothing is written; the empty buffer is
\* answered with -2.
C14_PrefixIncomplete ==
    /\ (/\ api \in {"http_request", "http_response"} /\ phase # "ready"
        /\ ~input.data_null /\ ~input.out_null) =>
            /\ (input.len > 0 /\ input.lex.status = "partial") =>
                   (phase = "returned" /\ rc = -1 /\ out = Unwritten)
            /\ input.len = 0 => (phase = "returned" /\ rc = -2 /\ out = Unwritten)

\* A response cut one byte before the end of its header block was answered with -1.
C14_Witness ==
    /\ Growing /\ api = "http_response" /\ input.len = HeaderBlockLen - 1
    /\ phase = "returned" /\ rc = -1

\* A response was parsed with code 0.
ResponseParsed == api = "http_response" /\ phase = "returned" /\ rc = 0

\* C15: a parsed response of status 1xx, 204 or 304 has has_body false whatever its
\* headers declare; one of any other status from 200 up has has_body true.
C15_BodyPresence ==
    ResponseParsed =>
        LET status == input.lex.code IN
        /\ out.status_code = status
        /\ (status \in 100..199 \/ status \in {204, 304}) => ~out.has_body
        /\ (status >= 200 /\ status \notin {204, 304}) => out.has_body

\* A 204 response declaring a Content-Length of 10 was reported without a body.
C15_Witness ==
    /\ ResponseParsed /\ input.lex.code = 204 /\ input.lex.headers = <<H_CL_10>>
    /\ out.content_length = I64(10) /\ ~out.has_body

\* The Connection headers of the message, in order.
ConnectionHeaders(headers) ==
    SelectSeq(headers, LAMBDA h : h \in {H_Conn_close, H_conn_keep, H_Conn_upgrade})

\* C16: should_close is true when the (first) Connection header says "close" in any
\* letter case, false when it says "keep-alive", and otherwise, with another value or
\* no Connection header, true exactly for minor version 0.
C16_ShouldClose ==
    ResponseParsed =>
        LET conns == ConnectionHeaders(input.lex.headers) IN
        IF conns # <<>> /\ conns[1] = H_Conn_close THEN out.should_close
        ELSE IF conns # <<>> /\ conns[1] = H_conn_keep THEN ~out.should_close
        ELSE out.should_close = (input.lex.version = 0)

\* An HTTP/1.1 response with "Connection: Close" was reported as closing.
C16_Witness ==
    /\ ResponseParsed /\ input.lex.version = 1
    /\ input.lex.headers = <<H_Conn_close>> /\ out.should_close

\* C17: has_framing is true exactly when the content length returned is at least 0
\* or the message is chunked.
C17_Framing ==
    ResponseParsed => (out.has_framing <=> (~out.content_length.neg \/ out.is_chunked))

\* A chunked response without a content length was reported as framed.
C17_Witness ==
    /\ ResponseParsed /\ input.lex.headers = <<H_TE_chunked>>
    /\ out.content_length = I64(-1) /\ out.is_chunked /\ out.has_framing

(***************************************************************************)
(* Claims about iris_dns_parse (checked under Spec)                        *)
(***************************************************************************)
\* iris_dns_parse was called with both pointers set.
DnsCalled == api = "dns" /\ phase # "ready" /\ ~input.data_null /\ ~input.out_null

DnsReturned == DnsCalled /\ phase = "returned"

\* The four section counts as the header bytes 4..11 declare them.
Declared(i) == input.buf[3 + 2 * i] * 256 + input.buf[4 + 2 * i]

\* The number of pieces at the head of ps that are of the given kind.
RECURSIVE Leading(_, _)
Leading(ps, kind) ==
    IF ps = <<>> \/ ps[1].kind # kind THEN 0 ELSE 1 + Leading(Tail(ps), kind)

\* After its leading pieces of the given kind the message ends, or holds bytes at
\* which nothing decodes.
ThenFails(ps, kind) ==
    LET g == Leading(ps, kind) IN g = Len(ps) \/ ps[g + 1].kind = "bad"

\* C6: no call indexes the message or an rdata slice past its end (an access past the
\* end would abort the call): every call returns.
C6_NoOutOfBounds == api = "dns" => phase # "aborted"

\* The message ends with the first byte of a compression pointer inside MX rdata: the
\* record was decoded and the pointer was not followed.
C6_Witness ==
    /\ DnsReturned /\ rc = 0
    /\ input.fam = "pieces" /\ input.pieces = <<RR_MX>>
    /\ out.authority_count = 1
    /\ out.authority[1].display_value = <<53, 32>>

\* C7: every buffer shorter than 12 bytes is answered with -2.
C7_ShortRejected == (DnsCalled /\ Len(input.buf) < 12) => (phase = "returned" /\ rc = -2)

C7_Witness == DnsReturned /\ Len(input.buf) = 11 /\ rc = -2

\* C8: a section count above 256 is answered with -2 whatever follows the header; a
\* count of 256 is not: with no question and no answer declared, and no count above
\* 256, the parse succeeds.
C8_CountLimit ==
    (DnsCalled /\ Len(input.buf) >= 12) =>
        /\ (\E i \in 1..4 : Declared(i) > 256) => (phase = "returned" /\ rc = -2)
        /\ ((\A i \in 1..4 : Declared(i) <= 256) /\ Declared(1) = 0 /\ Declared(2) = 0)
               => (phase = "returned" /\ rc = 0)

\* A count of 257 over a well-formed record was rejected.
C8_Witness ==
    /\ DnsReturned /\ rc = -2
    /\ Len(input.buf) >= 12 /\ Declared(3) = 257 /\ input.pieces = <<RR_A>>

PieceType(p) == IF p = RR_A THEN 1 ELSE IF p = RR_TXT THEN 16 ELSE 99

C11_AnswersTruncated ==
    (/\ DnsCalled /\ input.fam = "pieces"
     /\ Declared(1) = 0
     /\ ThenFails(input.pieces, "rr")
     /\ Declared(2) > Leading(input.pieces, "rr")) =>
        /\ phase = "returned" /\ rc = 0
        /\ out.answers_count = Leading(input.pieces, "rr")

(***************************************************************************)
(* Claims about the loops of parse_name and parse_dns (checked under       *)
(* SpecSteps)                                                              *)
(***************************************************************************)
NameHalted == api = "parse_name" /\ nst.st # "run"

DnsHalted == api = "parse_dns" /\ mst.st # "run"

\* C4: parse_name follows at most 10 pointers: the 11th jump fails the decode, a
\* name behind k <= 10 pointers decodes after exactly k jumps, and a name whose
\* pointers never reach an end does not decode.
C4_JumpLimit ==
    api = "parse_name" =>
        /\ nst.jumps <= 11
        /\ nst.jumps = 11 => nst.st = "none"
        /\ (NameHalted /\ input.fam = "chain" /\ input.start = 12) =>
               IF input.k <= 10
               THEN nst.st = "ok" /\ nst.jumps = input.k /\ nst.labels = <<(<<97>>)>>
               ELSE nst.st = "none"
        /\ (NameHalted /\ input.fam = "cycle" /\ input.start = 12) => nst.st = "none"

\* A name behind exactly 10 pointers was decoded.
C4_Witness ==
    /\ NameHalted /\ input.fam = "chain" /\ input.start = 12 /\ input.k = 10
    /\ nst.st = "ok" /\ nst.jumps = 10

\* The place of a section loop of parse_dns in the order the loops run.
SectionOrder(ph) ==
    CASE ph = "questions" -> 0 [] ph = "answers" -> 1 [] ph = "authority" -> 2
      [] ph = "additional" -> 3 [] OTHER -> 4

\* C5: every call terminates: an iteration of the loop of parse_name ends the loop,
\* moves the position forward past a label, or uses one of the 10 jumps; a step of
\* parse_dns ends the parse, completes one more iteration of the current section loop,
\* of which there are at most 256, or passes to a later section; and both loops halt.
C5_Terminates ==
    /\ [][NameStep => \/ nst'.st # "run"
                      \/ nst'.pos > nst.pos /\ nst'.jumps = nst.jumps
                      \/ nst'.jumps = nst.jumps + 1 /\ nst'.jumps <= 10]_vars
    /\ [][DnsStep => \/ mst'.st # "run"
                     \/ /\ mst'.phase = mst.phase
                        /\ mst'.i = mst.i + 1 /\ mst'.i <= 256
                     \/ /\ SectionOrder(mst'.phase) > SectionOrder(mst.phase)
                        /\ mst'.i = 0]_vars
    /\ [](api = "parse_name" => <>(nst.st # "run"))
    /\ [](api = "parse_dns" => <>(mst.st # "run"))

\* A name that points back to itself was given up after the 11th jump.
C5_Witness ==
    /\ NameHalted /\ input.fam = "cycle" /\ input.start = 12
    /\ nst.st = "none" /\ nst.jumps = 11

(***************************************************************************)
(* Claims about format_rdata (checked under SpecRdata)                     *)
(***************************************************************************)
\* The name embedded in the payload at offset k does not decode.
NameUndecodable(k) == parse_name(input.msg, input.start + k).st # "ok"

\* The payload has the wrong length for its type.
WrongLength ==
    \/ input.rtype = 1 /\ Len(input.rd) # 4
    \/ input.rtype = 28 /\ Len(input.rd) # 16
    \/ input.rtype \in {15, 64, 65} /\ Len(input.rd) < 3
    \/ input.rtype = 33 /\ Len(input.rd) < 7

\* The payload has the length of its type but its embedded name does not decode.
BadEmbeddedName ==
    /\ ~WrongLength
    /\ \/ input.rtype \in {2, 5, 12} /\ NameUndecodable(0)
       \/ input.rtype \in {15, 64, 65} /\ NameUndecodable(2)
       \/ input.rtype = 33 /\ NameUndecodable(6)

\* C23: format_rdata returns a string on every input, and on an unknown type, a
\* payload of the wrong length for its type, or a CNAME/NS/PTR/MX/SRV/SVCB/HTTPS payload
\* whose embedded name does not decode, the string is the lowercase hex dump of rd.
C23_HexOnMalformed ==
    (api = "format_rdata" /\ phase # "ready") =>
        /\ phase = "returned"
        /\ (input.rtype \notin KnownTypes \/ WrongLength \/ BadEmbeddedName)
              => out.display = hex(input.rd)

\* Bit n of the word w, as 0 or 1 (bit 0 the least significant).
RECURSIVE Pow2(_)
Pow2(n) == IF n = 0 THEN 1 ELSE 2 * Pow2(n - 1)

BitOf(w, n) == (w \div Pow2(n)) % 2

\* The flags word of the message, and the word with bits 6 to 4 cleared.
FlagsWord == U16(At(input.buf, 2), At(input.buf, 3))

FlagsWordMasked == FlagsWord - 64 * BitOf(FlagsWord, 6) - 32 * BitOf(FlagsWord, 5)
                   - 16 * BitOf(FlagsWord, 4)

\* C22 (checked under SpecFlags): for every flags word the header decodes to
\* is_response = bit 15, opcode = bits 14-11, is_authoritative = bit 10,
\* is_truncated = bit 9, recursion_desired = bit 8, recursion_available = bit 7,
\* response_code = bits 3-0; opcode and response_code are in 0..15, and the fields are
\* those of the word with bits 6-4 cleared.
C22_FlagBits ==
    (api = "dns" /\ phase = "returned" /\ input.fam = "flags") =>
        /\ rc = 0
        /\ out.is_response = (BitOf(FlagsWord, 15) = 1)
        /\ out.opcode = 8 * BitOf(FlagsWord, 14) + 4 * BitOf(FlagsWord, 13)
                         + 2 * BitOf(FlagsWord, 12) + BitOf(FlagsWord, 11)
        /\ out.is_authoritative = (BitOf(FlagsWord, 10) = 1)
        /\ out.is_truncated = (BitOf(FlagsWord, 9) = 1)
        /\ out.recursion_desired = (BitOf(FlagsWord, 8) = 1)
        /\ out.recursion_available = (BitOf(FlagsWord, 7) = 1)
        /\ out.response_code = 8 * BitOf(FlagsWord, 3) + 4 * BitOf(FlagsWord, 2)
                                + 2 * BitOf(FlagsWord, 1) + BitOf(FlagsWord, 0)
        /\ out.opcode \in 0..15 /\ out.response_code \in 0..15
        /\ out.response_code = FlagsWordMasked % 16
        /\ out.recursion_available = ((FlagsWordMasked \div 128) % 2 = 1)
        /\ out.id = 4660

\* The word 0xAD7A was decoded: a response, opcode 5, AA and RD set, TC and RA clear,
\* response code 10, with bits 6-4 all set.
C22_Witness ==
    /\ api = "dns" /\ phase = "returned" /\ input.fam = "flags" /\ rc = 0
    /\ FlagsWord = 44410 /\ FlagsWordMasked = 44298
    /\ out.is_response /\ out.opcode = 5 /\ out.is_authoritative /\ ~out.is_truncated
    /\ out.recursion_desired /\ ~out.recursion_available /\ out.response_code = 10

\* The offset just after the name field that starts at pos, found without following
\* any pointer: past the zero byte, or past the two bytes of the first pointer.
RECURSIVE FieldEnd(_, _)
FieldEnd(data, pos) ==
    IF At(data, pos) = 0 THEN pos + 1
    ELSE IF IsPointer(At(data, pos)) THEN pos + 2
    ELSE FieldEnd(data, pos + 1 + At(data, pos))

\* C21: the end offset of a decoded name is the offset just after the name field as
\* first encountered: past the zero byte when no pointer was followed, past the first
\* pointer when one was, whatever labels came before it and whatever was visited
\* after the jump; once a pointer has been followed the end offset no longer moves.
C21_EndOffset ==
    /\ []((NameHalted /\ nst.st = "ok") =>
            /\ nst.end_pos = FieldEnd(input.buf, input.start)
            /\ nst.jumped => /\ nst.end_pos - 2 >= input.start
                              /\ IsPointer(At(input.buf, nst.end_pos - 2))
            /\ ~nst.jumped => /\ nst.end_pos - 1 >= input.start
                               /\ At(input.buf, nst.end_pos - 1) = 0
                               /\ nst.end_pos = nst.pos + 1)
    /\ [][(NameStep /\ nst.jumped) => nst'.end_pos = nst.end_pos]_vars

\* The name "b.c" followed by a pointer to "a" at offset 12 was decoded from offset 19:
\* the end offset is 25, just past the pointer, though decoding ended at offset 15.
C21_Witness ==
    /\ NameHalted /\ nst.st = "ok" /\ input.fam = "mixed" /\ input.start = 19
    /\ Len(nst.labels) = 3 /\ nst.jumped /\ nst.jumps = 1
    /\ nst.end_pos = 25 /\ nst.pos = 14

(***************************************************************************)
(* Claims about the query builder (checked under SpecBuild)                *)
(***************************************************************************)
Encoded == api = "encode_decode" /\ phase = "returned"

\* The name is one or more labels of 1 to 63 bytes separated by single dots.
PlainName(name) ==
    /\ name # <<>>
    /\ \A i \in 1..Len(split_dots(name)) :
           Len(split_dots(name)[i]) \in 1..63

RoundTrips ==
    out.decoded = [st |-> "ok", name |-> input.domain, end |-> Len(out.bytes)]

\* C12, as stated: every dotted name decodes from its encoding to itself, ending at
\* the length of the encoding.
C12_EveryNameRoundTrips == Encoded => RoundTrips

\* A name with a label of exactly 63 bytes and a non-ASCII label came back unchanged.
C12_Witness ==
    /\ Encoded /\ input.domain = Join(<<L63, <<119, 119, 119>>, <<195, 169>>>>, <<46>>)
    /\ RoundTrips

Built == api = "dns_build_query" /\ phase = "returned" /\ rc = 0

\* C13: a built query is the id, the flags word 0x0100 or 0x0000, the counts 1/0/0/0,
\* the encoded name, the type and the class 1, each 16-bit field big-endian, and
\* nothing else: 12 + the length of the encoded name + 4 bytes.
C13_QueryLayout ==
    Built =>
        LET d == out.data
            n == Len(serialize_name(input.domain))
        IN  /\ Len(d) = 12 + n + 4 /\ out.len = Len(d)
            /\ d[1] * 256 + d[2] = input.id
            /\ d[3] * 256 + d[4] = (IF input.recursion_desired THEN 256 ELSE 0)
            /\ SubSeq(d, 5, 12) = <<0, 1, 0, 0, 0, 0, 0, 0>>
            /\ SubSeq(d, 13, 12 + n) = serialize_name(input.domain)
            /\ d[13 + n] * 256 + d[14 + n] = input.record_type
            /\ SubSeq(d, 15 + n, 16 + n) = <<0, 1>>

\* A query for "www.a" with recursion desired, id 0x1234 and type 65535 was built.
C13_Witness ==
    /\ Built /\ input.domain = <<119, 119, 119, 46, 97>>
    /\ input.recursion_desired /\ input.id = 4660 /\ input.record_type = 65535
    /\ out.len = 23

BuiltParsed == api = "build_parse" /\ phase # "ready"

\* Every component of the domain between its dots is at most 63 bytes long.
ShortLabels(domain) ==
    \A i \in 1..Len(split_dots(domain)) : Len(split_dots(domain)[i]) <= 63

\* The domain without its empty components, "." when none is left.
ExpectedName(domain) ==
    LET ls == SelectSeq(split_dots(domain), LAMBDA l : l # <<>>) IN
    IF ls = <<>> THEN <<46>> ELSE Join(ls, <<46>>)

\* C12, amended: a name decodes from its encoding to itself, ending at the length of
\* the encoding, exactly when it is "." or is made of one or more labels of 1 to 63
\* bytes separated by single dots; any other name whose components are at most 63
\* bytes decodes to the name without its empty components, "." when none is left.
C12_RoundTripsExactly ==
    Encoded =>
        /\ RoundTrips <=> (PlainName(input.domain) \/ input.domain = <<46>>)
        /\ ShortLabels(input.domain) =>
              out.decoded = [st |-> "ok", name |-> ExpectedName(input.domain),
                             end |-> Len(out.bytes)]

ParserCalled == api \in {"dns", "http_request", "http_response"} /\ phase = "returned"

\* C18: a parser that returns a non-zero code has not written *out and has allocated
\* nothing.
C18_FailureLeavesNothing ==
    (ParserCalled /\ rc # 0) => (out = Unwritten /\ heap.made = {} /\ heap.live = {})

\* A request with two differing Content-Length headers was rejected and left nothing.
C18_Witness ==
    /\ ParserCalled /\ api = "http_request" /\ rc = -2
    /\ input.lex.status = "complete" /\ input.lex.headers = <<H_CL_10, H_cl_20>>
    /\ out = Unwritten /\ heap.live = {}

\* The call was made with a null data pointer, a null out pointer or a length of 0.
BadArguments ==
    \/ input.data_null \/ input.out_null
    \/ api = "dns" /\ Len(input.buf) = 0
    \/ api # "dns" /\ input.len = 0

\* C27: each of the three parsers returns -2 when data is null, out is null or len
\* is 0.
C27_ArgumentError ==
    (api \in {"dns", "http_request", "http_response"} /\ phase # "ready" /\ BadArguments)
        => (phase = "returned" /\ rc = -2)

\* The request parser was given an empty buffer through two valid pointers.
C27_Witness ==
    /\ ParserCalled /\ api = "http_request" /\ rc = -2
    /\ ~input.data_null /\ ~input.out_null /\ input.len = 0

\* The record arrays of a parsed DNS message.
Sections == {"answers", "authority", "additional"}

SectionCount(sec) ==
    CASE sec = "answers" -> out.answers_count
      [] sec = "authority" -> out.authority_count
      [] sec = "additional" -> out.additional_count

\* The blocks a successful parse should have handed to the caller, read off the
\* structure it wrote.
Owed ==
    IF api = "dns" THEN
        {b \in heap.made :
            \/ b[1] = "questions" /\ b[2] \in 0..out.questions_count
            \/ b[1] \in Sections /\ b[2] \in 0..SectionCount(b[1])}
    ELSE {b \in heap.made : b[1] = "headers"}

\* C19: after a successful parse and one call of the matching release function,
\* every block the parse allocated has been released, once, and none is live: the
\* array of every non-empty section, each name and display string, each non-empty
\* rdata, the header array.  An empty section, an empty rdata and an empty header list
\* own no block.
C19_ReleasedOnce ==
    (ParserCalled /\ rc = 0) =>
        /\ heap.made = Owed
        /\ api = "dns" =>
              /\ Cardinality(heap.made)
                    = (IF out.questions_count = 0 THEN 0 ELSE 1 + out.questions_count)
                      + (IF out.answers_count = 0 THEN 0 ELSE 1 + 2 * out.answers_count)
                      + (IF out.authority_count = 0 THEN 0 ELSE 1 + 2 * out.authority_count)
                      + (IF out.additional_count = 0 THEN 0
                         ELSE 1 + 2 * out.additional_count)
                      + Cardinality({i \in 1..out.answers_count :
                                        out.answers[i].rdata_len > 0})
                      + Cardinality({i \in 1..out.authority_count :
                                        out.authority[i].rdata_len > 0})
                      + Cardinality({i \in 1..out.additional_count :
                                        out.additional[i].rdata_len > 0})
        /\ api # "dns" =>
              Cardinality(heap.made) = (IF out.headers_count = 0 THEN 0 ELSE 1)
        /\ heap.freed =>
              /\ heap.live = {}
              /\ heap.released = heap.made
              /\ ~heap.fault

\* A message with a TXT record and a record with empty rdata in its authority
\* section was parsed and released: five blocks for the two records, and the array.
C19_Witness ==
    /\ ParserCalled /\ api = "dns" /\ rc = 0 /\ heap.freed
    /\ input.pieces = <<RR_TXT, RR_Empty>> /\ out.authority_count = 2
    /\ out.questions_count = 0 /\ out.answers_count = 0
    /\ Cardinality(heap.released) = 6 /\ heap.live = {}

=============================================================================
